---------------------------- MODULE Spec2Model ----------------------------
(***************************************************************************)
(* RelSync: version inference and bump aggregation.                        *)
(*                                                                         *)
(* A text (a Python str) is a sequence of one-character strings, so that   *)
(* parsing and formatting are computed character by character.  Python's   *)
(* None is NoneText where a text is expected and NoBump where a bump type  *)
(* is expected.  A call that may raise returns a record whose field exc    *)
(* names the exception ("" when the call returns normally).                *)
(***************************************************************************)
EXTENDS Integers, Sequences, FiniteSets, TLC

(***************************************************************************)
(* Characters                                                              *)
(***************************************************************************)
LF == "\n"
SP == " "
\* One decimal digit outside ASCII (ARABIC-INDIC DIGIT THREE): Python's \d and
\* int() accept every Unicode decimal digit, [0-9] and [1-9] do not.
U0663 == "U+0663"

AsciiDigits == {"0", "1", "2", "3", "4", "5", "6", "7", "8", "9"}
NonZeroAsciiDigits == AsciiDigits \ {"0"}
UnicodeDigits == AsciiDigits \cup {U0663}
AsciiLetters ==
    {"a", "b", "c", "d", "e", "f", "g", "h", "i", "j", "k", "l", "m",
     "n", "o", "p", "q", "r", "s", "t", "u", "v", "w", "x", "y", "z",
     "A", "B", "C", "D", "E", "F", "G", "H", "I", "J", "K", "L", "M",
     "N", "O", "P", "Q", "R", "S", "T", "U", "V", "W", "X", "Y", "Z"}
Whitespace == {SP, LF}

NoneText == <<"None">>
NoBump == "None"

\* Python truthiness of an optional text: None and "" are falsy.
Truthy(x) == x # NoneText /\ x # <<>>

Raise(e) == [exc |-> e, tuple |-> <<>>, kind |-> "", text |-> <<>>]
ReturnTuple(t) == [exc |-> "", tuple |-> t, kind |-> "", text |-> <<>>]
ReturnKind(k) == [exc |-> "", tuple |-> <<>>, kind |-> k, text |-> <<>>]
ReturnText(s) == [exc |-> "", tuple |-> <<>>, kind |-> "", text |-> s]

(***************************************************************************)
(* Python built-ins used by the version code                               *)
(***************************************************************************)
\* Index of the first occurrence of character c in s, 0 when there is none.
IndexOf(s, c) ==
    IF \E i \in 1..Len(s) : s[i] = c
    THEN CHOOSE i \in 1..Len(s) : s[i] = c /\ \A j \in 1..(i - 1) : s[j] # c
    ELSE 0

\* str.split(sep) for a one-character separator.
RECURSIVE py_split(_, _)
py_split(s, sep) ==
    LET k == IndexOf(s, sep)
    IN  IF k = 0 THEN <<s>>
        ELSE <<SubSeq(s, 1, k - 1)>> \o py_split(SubSeq(s, k + 1, Len(s)), sep)

\* str.strip()
RECURSIVE py_strip(_)
py_strip(s) ==
    IF s = <<>> THEN s
    ELSE IF s[1] \in Whitespace THEN py_strip(Tail(s))
    ELSE IF s[Len(s)] \in Whitespace THEN py_strip(SubSeq(s, 1, Len(s) - 1))
    ELSE s

DigitVal(c) ==
    CASE c = "0" -> 0 [] c = "1" -> 1 [] c = "2" -> 2 [] c = "3" -> 3
      [] c = "4" -> 4 [] c = "5" -> 5 [] c = "6" -> 6 [] c = "7" -> 7
      [] c = "8" -> 8 [] c = "9" -> 9 [] c = U0663 -> 3

DigitChar(d) == <<"0", "1", "2", "3", "4", "5", "6", "7", "8", "9">>[d + 1]

RECURSIVE DigitsValue(_)
DigitsValue(ds) ==
    IF ds = <<>> THEN 0
    ELSE DigitsValue(SubSeq(ds, 1, Len(ds) - 1)) * 10 + DigitVal(ds[Len(ds)])

RECURSIVE Concat(_)
Concat(ss) == IF ss = <<>> THEN <<>> ELSE Head(ss) \o Concat(Tail(ss))

\* int(s): surrounding whitespace, one optional sign, decimal digits (of any
\* script) with single underscores between them; ValueError otherwise.
py_int(s) ==
    LET t == py_strip(s)
        signed == t # <<>> /\ t[1] \in {"+", "-"}
        body == IF signed THEN Tail(t) ELSE t
        groups == py_split(body, "_")
        ok == \A i \in 1..Len(groups) :
                 /\ groups[i] # <<>>
                 /\ \A j \in 1..Len(groups[i]) : groups[i][j] \in UnicodeDigits
        magnitude == DigitsValue(Concat(groups))
    IN  IF ~ok THEN [exc |-> "ValueError", val |-> 0]
        ELSE [exc |-> "",
              val |-> IF signed /\ t[1] = "-" THEN 0 - magnitude ELSE magnitude]

\* str(n) of an int, as an f-string formats it.
RECURSIVE py_str(_)
py_str(n) ==
    IF n < 0 THEN <<"-">> \o py_str(0 - n)
    ELSE IF n < 10 THEN <<DigitChar(n)>>
    ELSE py_str(n \div 10) \o <<DigitChar(n % 10)>>

Dotted(a, b, c) == py_str(a) \o <<".">> \o py_str(b) \o <<".">> \o py_str(c)

(***************************************************************************)
(* semver.py                                                               *)
(***************************************************************************)
bump_priority(b) == CASE b = "patch" -> 1 [] b = "minor" -> 2 [] b = "major" -> 3

\* 0|[1-9]\d*
NumericIdentifier(t) ==
    \/ t = <<"0">>
    \/ /\ t # <<>>
       /\ t[1] \in NonZeroAsciiDigits
       /\ \A i \in 2..Len(t) : t[i] \in UnicodeDigits

\* \d*[a-zA-Z-][0-9a-zA-Z-]*
AlphanumericIdentifier(t) ==
    \E k \in 1..Len(t) :
        /\ \A i \in 1..(k - 1) : t[i] \in UnicodeDigits
        /\ t[k] \in AsciiLetters \cup {"-"}
        /\ \A i \in (k + 1)..Len(t) : t[i] \in AsciiDigits \cup AsciiLetters \cup {"-"}

\* [0-9a-zA-Z-]+
BuildIdentifier(t) ==
    /\ t # <<>>
    /\ \A i \in 1..Len(t) : t[i] \in AsciiDigits \cup AsciiLetters \cup {"-"}

\* semver_regex.match(version): the groups of the match, matched = FALSE when
\* there is none.  "$" matches at the end of the text and also just before a
\* newline that ends the text.
semver_regex(version) ==
    LET body == IF version # <<>> /\ version[Len(version)] = LF
                THEN SubSeq(version, 1, Len(version) - 1) ELSE version
        hasPrefix == body # <<>> /\ body[1] = "v"
        rest == IF hasPrefix THEN Tail(body) ELSE body
        plus == IndexOf(rest, "+")
        release == IF plus = 0 THEN rest ELSE SubSeq(rest, 1, plus - 1)
        buildmetadata == IF plus = 0 THEN NoneText
                         ELSE SubSeq(rest, plus + 1, Len(rest))
        dash == IndexOf(release, "-")
        core == IF dash = 0 THEN release ELSE SubSeq(release, 1, dash - 1)
        prerelease == IF dash = 0 THEN NoneText
                      ELSE SubSeq(release, dash + 1, Len(release))
        nums == py_split(core, ".")
        pre == py_split(prerelease, ".")
        build == py_split(buildmetadata, ".")
        matched ==
            /\ Len(nums) = 3
            /\ \A i \in 1..3 : NumericIdentifier(nums[i])
            /\ \/ prerelease = NoneText
               \/ \A i \in 1..Len(pre) :
                     NumericIdentifier(pre[i]) \/ AlphanumericIdentifier(pre[i])
            /\ \/ buildmetadata = NoneText
               \/ \A i \in 1..Len(build) : BuildIdentifier(build[i])
    IN  [matched |-> matched,
         prefix |-> IF hasPrefix THEN <<"v">> ELSE <<>>,
         major |-> IF matched THEN nums[1] ELSE <<>>,
         minor |-> IF matched THEN nums[2] ELSE <<>>,
         patch |-> IF matched THEN nums[3] ELSE <<>>,
         prerelease |-> prerelease,
         buildmetadata |-> buildmetadata]

\* parse_version after the match, with group = None: (major, minor, patch).
TupleOfMatch(match_obj) ==
    IF ~match_obj.matched THEN Raise("ValueError")
    ELSE ReturnTuple(<<py_int(match_obj.major).val,
                       py_int(match_obj.minor).val,
                       py_int(match_obj.patch).val>>)

parse_version(version) ==
    IF version = NoneText THEN Raise("TypeError")
    ELSE TupleOfMatch(semver_regex(version))

\* BumpOfParsed with >= for > in the minor comparison.
BumpOfParsed_MinorGeq(o, n) ==
    IF o.exc # "" THEN Raise(o.exc)
    ELSE IF n.exc # "" THEN Raise(n.exc)
    ELSE IF n.tuple[1] > o.tuple[1] THEN ReturnKind("major")
    ELSE IF n.tuple[2] >= o.tuple[2] THEN ReturnKind("minor")
    ELSE IF n.tuple[3] > o.tuple[3] THEN ReturnKind("patch")
    ELSE ReturnKind(NoBump)

\* The body of version_bump once both versions are parsed (o, n: what the two
\* parse_version calls returned or raised, the old version's first).
BumpOfParsed(o, n) ==
    IF o.exc # "" THEN Raise(o.exc)
    ELSE IF n.exc # "" THEN Raise(n.exc)
    ELSE IF n.tuple[1] > o.tuple[1] THEN ReturnKind("major")
    ELSE IF n.tuple[2] > o.tuple[2] THEN ReturnKind("minor")
    ELSE IF n.tuple[3] > o.tuple[3] THEN ReturnKind("patch")
    ELSE ReturnKind(NoBump)

version_bump(old, new) == BumpOfParsed(parse_version(old), parse_version(new))

\* The body of bump_version once the version is parsed.
BumpedOfParsed(version, p, b) ==
    IF p.exc # "" THEN Raise(p.exc)
    ELSE IF b = "major" THEN ReturnText(Dotted(p.tuple[1] + 1, 0, 0))
    ELSE IF b = "minor" THEN ReturnText(Dotted(p.tuple[1], p.tuple[2] + 1, 0))
    ELSE IF b = "patch" THEN ReturnText(Dotted(p.tuple[1], p.tuple[2], p.tuple[3] + 1))
    ELSE ReturnText(version)

bump_version(version, b) == BumpedOfParsed(version, parse_version(version), b)

\* '.'.join(str(part) for part in version_parts)
JoinedParts(version_parts) ==
    IF version_parts.exc # "" THEN Raise(version_parts.exc)
    ELSE ReturnText(Dotted(version_parts.tuple[1], version_parts.tuple[2],
                           version_parts.tuple[3]))

get_version_string(version) == JoinedParts(parse_version(version))

(***************************************************************************)
(* cli.py: its own parse_version, version_bump and bump_version            *)
(***************************************************************************)
\* tuple(int(p) for p in parts)
TupleOfParts(parts) ==
    IF \E i \in 1..Len(parts) : py_int(parts[i]).exc # ""
    THEN Raise("ValueError")
    ELSE ReturnTuple([i \in 1..Len(parts) |-> py_int(parts[i]).val])

\* parts = version.split("."); tuple(int(p) for p in parts)
cli_parse_version(version) ==
    IF version = NoneText THEN Raise("AttributeError")
    ELSE TupleOfParts(py_split(version, "."))

\* "a, b, c = parse_version(v)": ValueError unless the tuple has three items.
Unpack3(r) ==
    IF r.exc # "" THEN r
    ELSE IF Len(r.tuple) # 3 THEN Raise("ValueError")
    ELSE r

\* The body of cli.py's version_bump once both versions are parsed.
cli_BumpOfParsed(o, n) ==
    IF o.exc # "" THEN Raise(o.exc)
    ELSE IF n.exc # "" THEN Raise(n.exc)
    ELSE IF n.tuple[1] > o.tuple[1] THEN ReturnKind("major")
    ELSE IF n.tuple[2] > o.tuple[2] THEN ReturnKind("minor")
    ELSE IF n.tuple[3] > o.tuple[3] THEN ReturnKind("patch")
    ELSE ReturnKind(NoBump)

cli_version_bump(old, new) ==
    cli_BumpOfParsed(Unpack3(cli_parse_version(old)), Unpack3(cli_parse_version(new)))

\* The body of cli.py's bump_version once the version is parsed.
cli_BumpedOfParsed(version, p, b) ==
    IF p.exc # "" THEN Raise(p.exc)
    ELSE IF b = "major" THEN ReturnText(Dotted(p.tuple[1] + 1, 0, 0))
    ELSE IF b = "minor" THEN ReturnText(Dotted(p.tuple[1], p.tuple[2] + 1, 0))
    ELSE IF b = "patch" THEN ReturnText(Dotted(p.tuple[1], p.tuple[2], p.tuple[3] + 1))
    ELSE ReturnText(version)

cli_bump_version(version, b) ==
    cli_BumpedOfParsed(version, Unpack3(cli_parse_version(version)), b)

(***************************************************************************)
(* Inputs                                                                  *)
(***************************************************************************)
MaxNum == 1
BigNum == 10
MaxEntities == 2

BumpArgs == {"major", "minor", "patch", NoBump}

\* Version components: small numbers, and a one-digit/two-digit boundary.
Nums == (0..MaxNum) \cup {BigNum - 1, BigNum}

RC == <<"r", "c">>
RC1 == <<"r", "c", ".", "1">>
B1 == <<"b", "1">>
BDash1 == <<"b", "-", "1">>

\* What may surround major.minor.patch in a valid version text.
Decorations ==
    {[prefix |-> <<>>, prerelease |-> NoneText, buildmetadata |-> NoneText],
     [prefix |-> <<"v">>, prerelease |-> NoneText, buildmetadata |-> NoneText],
     [prefix |-> <<>>, prerelease |-> RC, buildmetadata |-> NoneText],
     [prefix |-> <<>>, prerelease |-> RC1, buildmetadata |-> NoneText],
     [prefix |-> <<>>, prerelease |-> NoneText, buildmetadata |-> B1],
     [prefix |-> <<"v">>, prerelease |-> RC1, buildmetadata |-> BDash1]}

VersionText(nums, d) ==
    d.prefix \o Dotted(nums[1], nums[2], nums[3])
      \o (IF d.prerelease = NoneText THEN <<>> ELSE <<"-">> \o d.prerelease)
      \o (IF d.buildmetadata = NoneText THEN <<>> ELSE <<"+">> \o d.buildmetadata)

\* A valid version: the text handed to the program, with the value it denotes.
ValidVersions ==
    {[text |-> VersionText(n, d), valid |-> TRUE, nums |-> n,
      prefix |-> d.prefix, prerelease |-> d.prerelease,
      buildmetadata |-> d.buildmetadata] :
        n \in Nums \X Nums \X Nums, d \in Decorations}

\* Texts outside the semantic-version grammar.
MalformedTexts ==
    {<<>>,
     <<"1", ".", "2">>,
     <<"1", ".", "0", "2", ".", "0">>,
     <<"0", "1", ".", "2", ".", "0">>,
     <<"1", ".", "2", ".", "0", "3">>,
     <<"1", ".", "2", ".", "3", ".", "4">>,
     <<"1", ".", "2", ".">>,
     <<"v">>,
     <<"v", "v", "1", ".", "2", ".", "3">>,
     <<"a", ".", "b", ".", "c">>,
     <<"1", ".", "2", ".", "3", "-">>,
     <<"1", ".", "2", ".", "3", "-", "0", "1">>,
     <<"1", ".", "2", ".", "3", "-", "r", "c", ".", ".", "1">>,
     <<"1", ".", "2", ".", "3", "+">>,
     <<"1", ".", "2", ".", "+", "3">>,
     <<"1", ".", "2", ".", "-", "3">>,
     <<"1", "_", "0", ".", "2", ".", "3">>,
     <<SP, "1", ".", "2", ".", "3">>,
     <<"1", ".", "2", ".", "3", LF>>,
     <<"1", U0663, ".", "2", ".", "3">>}

MalformedVersions ==
    {[text |-> t, valid |-> FALSE, nums |-> <<>>, prefix |-> <<>>,
      prerelease |-> NoneText, buildmetadata |-> NoneText] : t \in MalformedTexts}

VersionInputs == ValidVersions \cup MalformedVersions

NoInput ==
    [text |-> NoneText, valid |-> FALSE, nums |-> <<>>, prefix |-> <<>>,
     prerelease |-> NoneText, buildmetadata |-> NoneText]

(***************************************************************************)
(* State                                                                   *)
(***************************************************************************)
VARIABLES
    \* one call of a version function
    versionIn,      \* the first argument (old / version) and the value it denotes
    newIn,          \* the second argument of version_bump
    bump,           \* the bump argument of bump_version
    call,           \* the call made, "" before it
    ret,            \* what the call returned or raised
    \* one run of a plan builder
    builder,        \* which function builds the plan
    submodules,     \* get_submodules(): the names, in .gitmodules order
    entity,         \* per name: the current and the target chart version read
    chart_paths,    \* the names that submodule_charts gives a chart path for
    repo_chart,     \* the parent chart file: whether it exists, its version
    pc,             \* position in the builder
    idx,            \* index of the next submodule of the running loop
    subchart_bumps, \* compute_subchart_bumps_from_parent's result so far
    global_bump_level,
    updates,        \* the builder's updates dict so far
    bump_type,      \* the bump looked up from the highest level
    parent_info,    \* the builder's second result
    raised,         \* the exception that ended the builder, "" when none
    \* the pre-release sequencer, applied to a finished plan
    prerelease_identifier,  \* the identifier supplied, NoneText when none
    parent_target,  \* the sequencer's outcome and the parent's target version
    \* one call of an override parser or of main's override handling
    oin,            \* the command line and the override files
    ocall,          \* the call made, "" before it
    oret,           \* what the call returned or raised
    \* invocations of main: fetch, update, submodule update
    args,           \* the parsed command line of the running invocation
    state_file,     \* the state file: whether it exists, its JSON document
    chart_file,     \* the parent chart file: whether it exists, its data
    upc,            \* position in main
    uidx,           \* index of the next entry of apply_submodule_updates' loop
    main_updates,   \* main's updates
    main_parent_info,   \* main's parent_info
    answers,        \* what was typed at each prompt of this invocation
    events,         \* the commands run and files written by this invocation
    saved           \* the (updates, parent_info) last passed to save_state

vvars == <<versionIn, newIn, bump, call, ret>>
svars == <<prerelease_identifier, parent_target>>
pvars == <<builder, submodules, entity, chart_paths, repo_chart, pc, idx,
           subchart_bumps, global_bump_level, updates, bump_type, parent_info,
           raised, svars>>
ovars == <<oin, ocall, oret>>
uvars == <<args, state_file, chart_file, upc, uidx, main_updates, main_parent_info,
           answers, events, saved>>
vars == <<vvars, pvars, ovars, uvars>>

NoChart == [isfile |-> FALSE, version |-> NoneText, nums |-> <<>>]
NoRet == [exc |-> "", tuple |-> <<>>, kind |-> "", text |-> <<>>]
NoParentInfo == [current |-> NoneText, suggested |-> NoneText, chart_bump |-> NoBump]
NoTarget == [exc |-> "", text |-> NoneText, state |-> ""]

\* A Python value that JSON can carry: None, a str, a list or tuple, a dict
\* with str keys (items holds its <<key, value>> pairs in insertion order).
PyNone == [t |-> "NoneType", s |-> "", items |-> <<>>]
PyStr(x) == [t |-> "str", s |-> x, items |-> <<>>]
PyList(xs) == [t |-> "list", s |-> "", items |-> xs]
PyDict(kvs) == [t |-> "dict", s |-> "", items |-> kvs]

NoArgs == [command |-> "", use_state_file |-> FALSE, force_refetch |-> FALSE,
           commit |-> FALSE, accept |-> FALSE, no_backup |-> FALSE]
NoFile == [isfile |-> FALSE, doc |-> [j |-> "", s |-> "", items |-> <<>>]]
NoChartFile == [isfile |-> FALSE, version |-> PyNone, dependencies |-> <<>>]

MainIdle ==
    /\ oin = <<>>
    /\ ocall = ""
    /\ oret = PyNone
    /\ args = NoArgs
    /\ state_file = NoFile
    /\ chart_file = NoChartFile
    /\ upc = "idle"
    /\ uidx = 1
    /\ main_updates = PyNone
    /\ main_parent_info = PyNone
    /\ answers = <<>>
    /\ events = <<>>
    /\ saved = <<>>

VersionIdle ==
    /\ versionIn = NoInput
    /\ newIn = NoInput
    /\ bump = NoBump
    /\ call = ""
    /\ ret = NoRet

PlanIdle ==
    /\ builder = ""
    /\ submodules = <<>>
    /\ entity = <<>>
    /\ chart_paths = {}
    /\ repo_chart = NoChart
    /\ pc = "idle"
    /\ idx = 1
    /\ subchart_bumps = <<>>
    /\ global_bump_level = 0
    /\ updates = <<>>
    /\ bump_type = NoBump
    /\ parent_info = NoParentInfo
    /\ raised = ""
    /\ prerelease_identifier = NoneText
    /\ parent_target = NoTarget

(***************************************************************************)
(* The version functions, one call each                                    *)
(***************************************************************************)
InitVersion ==
    /\ versionIn \in VersionInputs
    /\ newIn = NoInput
    /\ bump = NoBump
    /\ call = ""
    /\ ret = NoRet
    /\ PlanIdle
    /\ MainIdle

ParseVersion ==
    /\ call = ""
    /\ call' = "semver.parse_version"
    /\ ret' = parse_version(versionIn.text)
    /\ UNCHANGED <<versionIn, newIn, bump, pvars, ovars, uvars>>

CliParseVersion ==
    /\ call = ""
    /\ call' = "cli.parse_version"
    /\ ret' = cli_parse_version(versionIn.text)
    /\ UNCHANGED <<versionIn, newIn, bump, pvars, ovars, uvars>>

VersionBump ==
    /\ call = ""
    /\ \E n \in VersionInputs :
          /\ newIn' = n
          /\ ret' = version_bump(versionIn.text, n.text)
    /\ call' = "semver.version_bump"
    /\ UNCHANGED <<versionIn, bump, pvars, ovars, uvars>>

CliVersionBump ==
    /\ call = ""
    /\ \E n \in VersionInputs :
          /\ newIn' = n
          /\ ret' = cli_version_bump(versionIn.text, n.text)
    /\ call' = "cli.version_bump"
    /\ UNCHANGED <<versionIn, bump, pvars, ovars, uvars>>

BumpVersion ==
    /\ call = ""
    /\ \E b \in BumpArgs :
          /\ bump' = b
          /\ ret' = bump_version(versionIn.text, b)
    /\ call' = "semver.bump_version"
    /\ UNCHANGED <<versionIn, newIn, pvars, ovars, uvars>>

CliBumpVersion ==
    /\ call = ""
    /\ \E b \in BumpArgs :
          /\ bump' = b
          /\ ret' = cli_bump_version(versionIn.text, b)
    /\ call' = "cli.bump_version"
    /\ UNCHANGED <<versionIn, newIn, pvars, ovars, uvars>>

\* bump_version applied to its own result, with the same bump.
BumpVersionAgain ==
    /\ call = "semver.bump_version"
    /\ ret.exc = ""
    /\ ret' = bump_version(ret.text, bump)
    /\ call' = "semver.bump_version twice"
    /\ UNCHANGED <<versionIn, newIn, bump, pvars, ovars, uvars>>

CliBumpVersionAgain ==
    /\ call = "cli.bump_version"
    /\ ret.exc = ""
    /\ ret' = cli_bump_version(ret.text, bump)
    /\ call' = "cli.bump_version twice"
    /\ UNCHANGED <<versionIn, newIn, bump, pvars, ovars, uvars>>

GetVersionString ==
    /\ call = ""
    /\ call' = "semver.get_version_string"
    /\ ret' = get_version_string(versionIn.text)
    /\ UNCHANGED <<versionIn, newIn, bump, pvars, ovars, uvars>>

NextVersion ==
    \/ ParseVersion
    \/ GetVersionString
    \/ CliParseVersion
    \/ VersionBump
    \/ CliVersionBump
    \/ BumpVersion
    \/ CliBumpVersion
    \/ BumpVersionAgain
    \/ CliBumpVersionAgain

SpecVersion == InitVersion /\ [][NextVersion]_vars

(***************************************************************************)
(* Plan building: inputs                                                   *)
(***************************************************************************)
EntityName == <<"A", "B", "C", "D">>
Names == {EntityName[i] : i \in 1..MaxEntities}

V(a, b, c) == Dotted(a, b, c)

\* The (current, target) chart versions read for one submodule.
EntityCases ==
    {[current |-> V(1, 2, 0), target |-> V(1, 3, 0)],
     [current |-> V(2, 0, 0), target |-> V(2, 0, 1)],
     [current |-> V(1, 0, 0), target |-> V(2, 0, 0)],
     [current |-> NoneText, target |-> V(3, 0, 0)],
     [current |-> NoneText, target |-> <<"1", ".", "2">>],
     [current |-> V(1, 2, 0), target |-> V(1, 2, 0)],
     [current |-> V(1, 2, 0), target |-> NoneText],
     [current |-> V(2, 0, 0), target |-> V(1, 5, 0)],
     [current |-> <<"1", ".", "2">>, target |-> V(1, 3, 0)],
     [current |-> <<"1", ".", "0", "2", ".", "0">>, target |-> V(1, 3, 0)],
     [current |-> V(1, 2, 0) \o <<"-">> \o RC, target |-> V(1, 2, 1)]}

\* The parent chart: missing, without a version, or with one of these.
ParentCharts ==
    {NoChart,
     [isfile |-> TRUE, version |-> NoneText, nums |-> <<>>],
     [isfile |-> TRUE, version |-> V(0, 5, 0), nums |-> <<0, 5, 0>>],
     [isfile |-> TRUE, version |-> V(1, 9, 9), nums |-> <<1, 9, 9>>],
     [isfile |-> TRUE, version |-> V(0, 6, 0) \o <<"-">> \o RC, nums |-> <<0, 6, 0>>],
     [isfile |-> TRUE, version |-> <<"0", ".", "5">>, nums |-> <<>>]}

Range(f) == {f[x] : x \in DOMAIN f}

\* The orders in which .gitmodules may list any of the names.
Orders ==
    {o \in UNION {[1..n -> Names] : n \in 0..MaxEntities} :
        \A i, j \in DOMAIN o : i # j => o[i] # o[j]}

\* The sets of names with a chart path of their own: every name, or every name
\* but one.  Only helm.py's builder depends on it (see ChartPathMissing).
ChartPathChoices(b, names) ==
    IF b = "helm.get_current_status_from_parent_chart"
    THEN {names} \cup {names \ {n} : n \in names}
    ELSE {{}}

FETCH == "cli.fetch_updates"
CLI_STATUS == "cli.get_current_status_from_parent_chart"
HELM_STATUS == "helm.get_current_status_from_parent_chart"
Builders == {FETCH, CLI_STATUS, HELM_STATUS}

(***************************************************************************)
(* Plan building: the code                                                 *)
(***************************************************************************)
Max(a, b) == IF a >= b THEN a ELSE b

get_chart_version(chart) == IF ~chart.isfile THEN NoneText ELSE chart.version

\* for k, v in bump_priority.items(): if v == level: bump_type = k; break
bump_of_level(level) ==
    IF level = 1 THEN "patch"
    ELSE IF level = 2 THEN "minor"
    ELSE IF level = 3 THEN "major"
    ELSE NoBump

\* repo_bump_of without the two-level mapping: the bump itself.
repo_bump_of_Uncoarsened(b) == IF b # NoBump THEN b ELSE "patch"

\* repo_bump = "minor" if bump_type and bump_priority[bump_type] > 2 else "patch"
repo_bump_of(b) == IF b # NoBump /\ bump_priority(b) > 2 THEN "minor" ELSE "patch"

\* fetch_bump that cannot infer a bump without a current version.
fetch_bump_NoForcedMajor(current_version, suggested_version) ==
    IF ~Truthy(suggested_version) \/ ~Truthy(current_version) THEN ReturnKind(NoBump)
    ELSE cli_version_bump(current_version, suggested_version)

\* fetch_updates, the bump of one submodule.
fetch_bump(current_version, suggested_version) ==
    IF ~Truthy(suggested_version) THEN ReturnKind(NoBump)
    ELSE IF ~Truthy(current_version) THEN ReturnKind("major")
    ELSE cli_version_bump(current_version, suggested_version)

\* next_bump_level without max: the last bump wins.
next_bump_level_LastWins(level, b) ==
    IF b # NoBump THEN bump_priority(b) ELSE level

\* if bump: global_bump_level = max(global_bump_level, bump_priority[bump])
next_bump_level(level, b) ==
    IF b # NoBump THEN Max(level, bump_priority(b)) ELSE level

\* compute_subchart_bumps_from_parent, the bump of one submodule.
subchart_bump(b, parent_dep_version, current_sub_version) ==
    IF Truthy(parent_dep_version) /\ Truthy(current_sub_version)
    THEN IF b = HELM_STATUS
         THEN version_bump(parent_dep_version, current_sub_version)
         ELSE cli_version_bump(parent_dep_version, current_sub_version)
    ELSE ReturnKind(NoBump)

\* max_bump_level with min for max.
max_bump_level_Min(bumps) ==
    LET levels == {bump_priority(bumps[n]) : n \in {m \in DOMAIN bumps : bumps[m] # NoBump}}
    IN  IF levels = {} THEN 0 ELSE CHOOSE l \in levels : \A k \in levels : l <= k

\* max((bump_priority[b] for b in subchart_bumps.values() if b is not None), default=0)
max_bump_level(bumps) ==
    LET levels == {bump_priority(bumps[n]) : n \in {m \in DOMAIN bumps : bumps[m] # NoBump}}
    IN  IF levels = {} THEN 0 ELSE CHOOSE l \in levels : \A k \in levels : l >= k

\* bump_version(current, repo_bump) if bump else current
parent_suggested(b, current, bt) ==
    IF bt = NoBump THEN ReturnText(current)
    ELSE IF b = HELM_STATUS THEN bump_version(current, repo_bump_of(bt))
    ELSE cli_bump_version(current, repo_bump_of(bt))

\* helm.py joins the submodule path with submodule_charts.get(name): None when
\* the name has no entry.  cli.py falls back to default_chart_location.
ChartPathMissing(b, name, paths) == b = HELM_STATUS /\ name \notin paths

InitPlan ==
    /\ VersionIdle
    /\ MainIdle
    /\ builder \in Builders
    /\ submodules \in Orders
    /\ entity \in [Range(submodules) -> EntityCases]
    /\ chart_paths \in ChartPathChoices(builder, Range(submodules))
    /\ repo_chart \in ParentCharts
    /\ pc = IF builder = FETCH THEN "fetch" ELSE "bumps"
    /\ idx = 1
    /\ subchart_bumps = <<>>
    /\ global_bump_level = 0
    /\ updates = <<>>
    /\ bump_type = NoBump
    /\ parent_info = NoParentInfo
    /\ raised = ""
    /\ prerelease_identifier = NoneText
    /\ parent_target = NoTarget

Fail(e) ==
    /\ pc' = "raised"
    /\ raised' = e
    /\ UNCHANGED <<idx, subchart_bumps, global_bump_level, updates, bump_type,
                   parent_info>>

\* The rest of an iteration of fetch_updates' loop, r being the bump of the
\* submodule (or what computing it raised).
FetchRecord(name, r) ==
    IF r.exc # "" THEN Fail(r.exc)
    ELSE /\ global_bump_level' = next_bump_level(global_bump_level, r.kind)
         /\ updates' = updates @@
               (name :> [current_tag_chart_version |-> entity[name].current,
                         suggested_tag_chart_version |-> entity[name].target,
                         chart_bump |-> r.kind])
         /\ idx' = idx + 1
         /\ UNCHANGED <<pc, subchart_bumps, bump_type, parent_info, raised>>

\* fetch_updates: one iteration of the loop over the submodules.
FetchSubmodule ==
    /\ pc = "fetch"
    /\ idx <= Len(submodules)
    /\ FetchRecord(submodules[idx],
                   fetch_bump(entity[submodules[idx]].current,
                              entity[submodules[idx]].target))
    /\ UNCHANGED <<vvars, ovars, uvars, svars, builder, submodules, entity,
                   chart_paths, repo_chart>>

\* The result of a builder, r being the parent's suggested version (or what
\* computing it raised).
ParentResult(level, bt, repo_current, r) ==
    /\ global_bump_level' = level
    /\ bump_type' = bt
    /\ IF r.exc # ""
       THEN /\ pc' = "raised"
            /\ raised' = r.exc
            /\ UNCHANGED parent_info
       ELSE /\ pc' = "done"
            /\ parent_info' = [current |-> repo_current,
                               suggested |-> r.text,
                               chart_bump |-> repo_bump_of(bt)]
            /\ UNCHANGED raised
    /\ UNCHANGED <<idx, subchart_bumps, updates>>

\* The end of a builder: the parent's bump and suggested version.
ParentInfo(level) ==
    ParentResult(level, bump_of_level(level), get_chart_version(repo_chart),
                 parent_suggested(builder, get_chart_version(repo_chart),
                                  bump_of_level(level)))

\* fetch_updates after the loop.
FetchParent ==
    /\ pc = "fetch"
    /\ idx > Len(submodules)
    /\ ParentInfo(global_bump_level)
    /\ UNCHANGED <<vvars, ovars, uvars, svars, builder, submodules, entity,
                   chart_paths, repo_chart>>

\* The rest of an iteration of compute_subchart_bumps_from_parent's loop, r
\* being the bump of the submodule (or what computing it raised).
SubchartRecord(name, r) ==
    IF ChartPathMissing(builder, name, chart_paths) THEN Fail("TypeError")
    ELSE IF r.exc # "" THEN Fail(r.exc)
    ELSE /\ subchart_bumps' = subchart_bumps @@ (name :> r.kind)
         /\ idx' = idx + 1
         /\ UNCHANGED <<pc, global_bump_level, updates, bump_type, parent_info,
                        raised>>

\* compute_subchart_bumps_from_parent: one iteration of its loop.
ComputeSubchartBump ==
    /\ pc = "bumps"
    /\ repo_chart.isfile
    /\ idx <= Len(submodules)
    /\ SubchartRecord(submodules[idx],
                      subchart_bump(builder, entity[submodules[idx]].current,
                                    entity[submodules[idx]].target))
    /\ UNCHANGED <<vvars, ovars, uvars, svars, builder, submodules, entity,
                   chart_paths, repo_chart>>

\* compute_subchart_bumps_from_parent returns: {} at once when the parent chart
\* is no file, the bumps after the loop otherwise.
ComputeSubchartBumpsReturn ==
    /\ pc = "bumps"
    /\ ~repo_chart.isfile \/ idx > Len(submodules)
    /\ pc' = "status"
    /\ idx' = 1
    /\ UNCHANGED <<vvars, ovars, uvars, svars, builder, submodules, entity,
                   chart_paths, repo_chart,
                   subchart_bumps, global_bump_level, updates, bump_type,
                   parent_info, raised>>

\* get_current_status_from_parent_chart: one iteration of its loop.
StatusSubmodule ==
    /\ pc = "status"
    /\ idx <= Len(submodules)
    /\ LET name == submodules[idx]
       IN  IF ChartPathMissing(builder, name, chart_paths) THEN Fail("TypeError")
           ELSE /\ updates' = updates @@
                      (name :> [current_tag_chart_version |-> entity[name].target,
                                suggested_tag_chart_version |-> NoneText,
                                chart_bump |-> IF name \in DOMAIN subchart_bumps
                                               THEN subchart_bumps[name]
                                               ELSE NoBump])
                /\ idx' = idx + 1
                /\ UNCHANGED <<pc, subchart_bumps, global_bump_level, bump_type,
                               parent_info, raised>>
    /\ UNCHANGED <<vvars, ovars, uvars, svars, builder, submodules, entity,
                   chart_paths, repo_chart>>

\* get_current_status_from_parent_chart after the loop.
StatusParent ==
    /\ pc = "status"
    /\ idx > Len(submodules)
    /\ ParentInfo(max_bump_level(subchart_bumps))
    /\ UNCHANGED <<vvars, ovars, uvars, svars, builder, submodules, entity,
                   chart_paths, repo_chart>>

(***************************************************************************)
(* The pre-release sequencer.  distribution.py takes a prerelease_identifier *)
(* and expects it inside parent_info["suggested"]; the code that puts it    *)
(* there is not among the source files, so it is modelled from the          *)
(* specification (section 4.4), on top of the plan the builders return.     *)
(***************************************************************************)
BETA == <<"b", "e", "t", "a">>
Identifiers == {NoneText, RC, BETA}

\* The characters of identifiers, in ASCII order.
AsciiOrder ==
    <<"-", "0", "1", "2", "3", "4", "5", "6", "7", "8", "9",
      "A", "B", "C", "D", "E", "F", "G", "H", "I", "J", "K", "L", "M",
      "N", "O", "P", "Q", "R", "S", "T", "U", "V", "W", "X", "Y", "Z",
      "a", "b", "c", "d", "e", "f", "g", "h", "i", "j", "k", "l", "m",
      "n", "o", "p", "q", "r", "s", "t", "u", "v", "w", "x", "y", "z">>

RECURSIVE TextLess(_, _)
TextLess(a, b) ==
    IF b = <<>> THEN FALSE
    ELSE IF a = <<>> THEN TRUE
    ELSE IF a[1] = b[1] THEN TextLess(Tail(a), Tail(b))
    ELSE IndexOf(AsciiOrder, a[1]) < IndexOf(AsciiOrder, b[1])

IsNumeric(t) == t # <<>> /\ \A i \in 1..Len(t) : t[i] \in AsciiDigits

\* Precedence of two prerelease identifiers: numeric ones compare as numbers
\* and are lower than the others, which compare as texts.
IdentifierLess(a, b) ==
    IF IsNumeric(a) /\ IsNumeric(b) THEN DigitsValue(a) < DigitsValue(b)
    ELSE IF IsNumeric(a) THEN TRUE
    ELSE IF IsNumeric(b) THEN FALSE
    ELSE TextLess(a, b)

\* Precedence of two sequences of prerelease identifiers: a strict prefix is
\* lower.
RECURSIVE PrereleaseLess(_, _)
PrereleaseLess(a, b) ==
    IF b = <<>> THEN FALSE
    ELSE IF a = <<>> THEN TRUE
    ELSE IF a[1] = b[1] THEN PrereleaseLess(Tail(a), Tail(b))
    ELSE IdentifierLess(a[1], b[1])

\* The SemanticVersion of a match: its numbers and its prerelease.
VersionOfMatch(m) ==
    [nums |-> <<py_int(m.major).val, py_int(m.minor).val, py_int(m.patch).val>>,
     prerelease |-> m.prerelease]

\* The ordering of section 3: a > b.
Greater(a, b) ==
    \/ a.nums[1] > b.nums[1]
    \/ a.nums[1] = b.nums[1] /\ a.nums[2] > b.nums[2]
    \/ a.nums[1] = b.nums[1] /\ a.nums[2] = b.nums[2] /\ a.nums[3] > b.nums[3]
    \/ /\ a.nums = b.nums
       /\ b.prerelease # NoneText
       /\ \/ a.prerelease = NoneText
          \/ PrereleaseLess(py_split(b.prerelease, "."), py_split(a.prerelease, "."))

\* A prerelease as a train: its identifier, and the counter read from a
\* trailing numeric dot-segment (0 when there is none).
TrainOf(prerelease) ==
    LET segments == py_split(prerelease, ".")
        last == segments[Len(segments)]
    IN  IF Len(segments) > 1 /\ IsNumeric(last)
        THEN [identifier |-> SubSeq(prerelease, 1, Len(prerelease) - Len(last) - 1),
              counter |-> DigitsValue(last)]
        ELSE [identifier |-> prerelease, counter |-> 0]

Target(state, text) == [exc |-> "", text |-> text, state |-> state]

\* NewTrainOfVersions with a counter of 1 on the first pre-release of a train.
NewTrainOfVersions_Counted(cur, cand, identifier) ==
    Target("NewTrain",
           Dotted(cand.nums[1], cand.nums[2], cand.nums[3]) \o <<"-">> \o identifier
             \o <<".", "1">>)

\* Outcomes 2 and 4: the candidate with the identifier as its prerelease.
NewTrainOfVersions(cur, cand, identifier) ==
    Target("NewTrain",
           Dotted(cand.nums[1], cand.nums[2], cand.nums[3]) \o <<"-">> \o identifier)

\* Outcome 3: the current release core with the next counter.
IncrementTrainOfVersions(cur, train, identifier) ==
    Target("IncrementTrain",
           Dotted(cur.nums[1], cur.nums[2], cur.nums[3]) \o <<"-">> \o identifier
             \o <<".">> \o py_str(train.counter + 1))

\* Outcomes 2 to 4, in their priority order, on the two parsed versions.
SequencedOfVersions(cur, cand, identifier) ==
    IF Greater(cand, cur) THEN NewTrainOfVersions(cur, cand, identifier)
    ELSE IF cur.prerelease # NoneText /\ TrainOf(cur.prerelease).identifier = identifier
    THEN IncrementTrainOfVersions(cur, TrainOf(cur.prerelease), identifier)
    ELSE NewTrainOfVersions(cur, cand, identifier)

SequencedOfMatches(cur, cand, identifier) ==
    IF ~cur.matched \/ ~cand.matched
    THEN [exc |-> "ValueError", text |-> NoneText, state |-> ""]
    ELSE SequencedOfVersions(VersionOfMatch(cur), VersionOfMatch(cand), identifier)

\* The sequencer: without an identifier the candidate as it is; otherwise
\* NewTrain, IncrementTrain or the NewTrain fallback.
prerelease_sequencer(current, candidate, identifier) ==
    IF identifier = NoneText THEN Target("Stable", candidate)
    ELSE IF current = NoneText \/ candidate = NoneText
    THEN [exc |-> "MissingParentVersion", text |-> NoneText, state |-> ""]
    ELSE SequencedOfMatches(semver_regex(current), semver_regex(candidate), identifier)

\* The sequencer applied to the plan a builder returned.
SequencePrerelease ==
    /\ pc = "done"
    /\ \E identifier \in Identifiers :
          /\ prerelease_identifier' = identifier
          /\ parent_target' = prerelease_sequencer(parent_info.current,
                                                   parent_info.suggested, identifier)
    /\ pc' = "sequenced"
    /\ UNCHANGED <<vvars, ovars, uvars, builder, submodules, entity, chart_paths,
                   repo_chart, idx,
                   subchart_bumps, global_bump_level, updates, bump_type,
                   parent_info, raised>>

Init == InitPlan

Next ==
    \/ FetchSubmodule
    \/ FetchParent
    \/ ComputeSubchartBump
    \/ ComputeSubchartBumpsReturn
    \/ StatusSubmodule
    \/ StatusParent
    \/ SequencePrerelease

Spec == Init /\ [][Next]_vars

(***************************************************************************)
(* Properties of the version functions (under SpecVersion)                 *)
(***************************************************************************)
\* classify, as the specification words it, on the values the texts denote.
Classify(o, n) ==
    IF n[1] > o[1] THEN "major"
    ELSE IF n[2] > o[2] THEN "minor"
    ELSE IF n[3] > o[3] THEN "patch"
    ELSE NoBump

\* n is lower than o in the (major, minor, patch) ordering.
Lower(n, o) ==
    \/ n[1] < o[1]
    \/ n[1] = o[1] /\ n[2] < o[2]
    \/ n[1] = o[1] /\ n[2] = o[2] /\ n[3] < o[3]

\* C3: for all valid versions old and new, version_bump of semver.py returns
\* major if new.major > old.major, otherwise minor if new.minor > old.minor,
\* otherwise patch if new.patch > old.patch, otherwise none; a version against
\* itself gives none, and a single greater field below equal more-significant
\* fields gives that field's kind.
C3_VersionBumpClassifies ==
    (call = "semver.version_bump" /\ versionIn.valid /\ newIn.valid) =>
        /\ ret.exc = ""
        /\ ret.kind = Classify(versionIn.nums, newIn.nums)
        /\ versionIn.nums = newIn.nums => ret.kind = NoBump
        /\ newIn.nums[1] > versionIn.nums[1] => ret.kind = "major"
        /\ (newIn.nums[1] = versionIn.nums[1] /\ newIn.nums[2] > versionIn.nums[2])
              => ret.kind = "minor"
        /\ (newIn.nums[1] = versionIn.nums[1] /\ newIn.nums[2] = versionIn.nums[2]
              /\ newIn.nums[3] > versionIn.nums[3]) => ret.kind = "patch"

\* C3 witness: a decorated 1.9.x against a decorated 1.10.x is a minor bump.
C3_Witness ==
    /\ call = "semver.version_bump"
    /\ versionIn.valid /\ newIn.valid
    /\ versionIn.prerelease # NoneText
    /\ newIn.buildmetadata # NoneText
    /\ versionIn.nums[1] = newIn.nums[1]
    /\ versionIn.nums[2] = BigNum - 1
    /\ newIn.nums[2] = BigNum
    /\ newIn.nums[3] < versionIn.nums[3]
    /\ ret.kind = "minor"

\* C4: for all valid versions old and new with new lower than old in the
\* (major, minor, patch) ordering, version_bump (semver.py and cli.py) returns
\* none: it neither raises nor reports patch, minor or major.
C4_NeverReportsDecrease ==
    (call \in {"semver.version_bump", "cli.version_bump"}
       /\ versionIn.valid /\ newIn.valid
       /\ Lower(newIn.nums, versionIn.nums)) =>
        (ret.exc = "" /\ ret.kind = NoBump)

\* next_version, as the specification words it.
NextVersionText(v, b) ==
    IF b = "major" THEN Dotted(v.nums[1] + 1, 0, 0)
    ELSE IF b = "minor" THEN Dotted(v.nums[1], v.nums[2] + 1, 0)
    ELSE IF b = "patch" THEN Dotted(v.nums[1], v.nums[2], v.nums[3] + 1)
    ELSE v.text

\* C6: for every valid current version, with or without a prerelease or build
\* suffix, bump_version (semver.py and cli.py) returns major+1.0.0 for major,
\* major.minor+1.0 for minor, major.minor.patch+1 for patch, each a clean
\* release, and the version unchanged for none, raising nothing; the patch
\* bump applied twice adds 2 to patch and leaves major and minor alone.
C6_BumpVersionNext ==
    /\ (call \in {"semver.bump_version", "cli.bump_version"} /\ versionIn.valid) =>
          (ret.exc = "" /\ ret.text = NextVersionText(versionIn, bump))
    /\ (call \in {"semver.bump_version twice", "cli.bump_version twice"}
          /\ versionIn.valid /\ bump = "patch") =>
          (ret.exc = "" /\ ret.text = Dotted(versionIn.nums[1], versionIn.nums[2],
                                             versionIn.nums[3] + 2))

\* C10: parse_version (semver.py and cli.py) accepts a valid version, with
\* an optional leading v, and raises ValueError for every text outside the
\* semantic-version grammar, "1.2" and "1.02.0" among them.
C10_ParseRejectsMalformed ==
    call \in {"semver.parse_version", "cli.parse_version"} =>
        IF versionIn.valid THEN ret.exc = "" /\ ret.tuple = versionIn.nums
        ELSE ret.exc = "ValueError"

\* render, as the specification words it: major.minor.patch, with -prerelease
\* appended when there is one; build metadata is dropped.
Render(v) ==
    Dotted(v.nums[1], v.nums[2], v.nums[3])
      \o (IF v.prerelease = NoneText THEN <<>> ELSE <<"-">> \o v.prerelease)

\* C11: for every valid version text, get_version_string returns a text with
\* the same major, minor and patch and the same prerelease (as -prerelease);
\* only the build metadata may be missing from it.
C11_RenderParseRoundTrip ==
    (call = "semver.get_version_string" /\ versionIn.valid) =>
        (ret.exc = "" /\ ret.text = Render(versionIn))

\* The text of a valid version without its build metadata.
WithoutBuild(v) == v.prefix \o Render(v)

\* C12: build metadata never influences the bump logic: on valid versions,
\* version_bump (semver.py and cli.py) gives the same result with and without
\* build metadata on either argument, and so does bump_version for a major,
\* minor or patch bump.
C12_BuildMetadataIgnored ==
    /\ (call = "semver.version_bump" /\ versionIn.valid /\ newIn.valid) =>
          ret = version_bump(WithoutBuild(versionIn), WithoutBuild(newIn))
    /\ (call = "cli.version_bump" /\ versionIn.valid /\ newIn.valid) =>
          ret = cli_version_bump(WithoutBuild(versionIn), WithoutBuild(newIn))
    /\ (call = "semver.bump_version" /\ versionIn.valid /\ bump # NoBump) =>
          ret = bump_version(WithoutBuild(versionIn), bump)
    /\ (call = "cli.bump_version" /\ versionIn.valid /\ bump # NoBump) =>
          ret = cli_bump_version(WithoutBuild(versionIn), bump)

(***************************************************************************)
(* Properties of the plan builders (under Spec)                            *)
(***************************************************************************)
\* BumpKind's severity order: none < patch < minor < major.
Severity(k) ==
    CASE k = NoBump -> 0 [] k = "patch" -> 1 [] k = "minor" -> 2 [] k = "major" -> 3

\* dominant: the severity-maximum of a set of bump kinds, none when empty.
Dominant(kinds) ==
    IF kinds = {} THEN NoBump
    ELSE CHOOSE k \in kinds : \A j \in kinds : Severity(k) >= Severity(j)

\* coarsen, as the specification words it.
Coarsen(b) == IF b \in {"minor", "major"} THEN "minor" ELSE "patch"

PlanBumps == {updates[n].chart_bump : n \in DOMAIN updates}

\* C1: the parent's bump (repo_bump, reported as chart_bump) is coarsen of the
\* dominant bump: none -> patch, patch -> patch, minor -> minor, major -> minor.
C1_RepoBumpIsCoarsen ==
    pc = "done" => parent_info.chart_bump = Coarsen(bump_type)

ScenarioA ==
    /\ builder = FETCH
    /\ Range(submodules) = {"A", "B"}
    /\ entity["A"] = [current |-> V(1, 2, 0), target |-> V(1, 3, 0)]
    /\ entity["B"] = [current |-> V(2, 0, 0), target |-> V(2, 0, 1)]
    /\ repo_chart.isfile
    /\ repo_chart.version = V(0, 5, 0)

\* C2: scenario A (A 1.2.0 -> 1.3.0, B 2.0.0 -> 2.0.1, parent 0.5.0) yields the
\* entity bumps A minor and B patch, the dominant bump minor, the coarsened
\* bump minor and the parent target 0.6.0.
C2_ScenarioA ==
    (ScenarioA /\ pc \in {"done", "raised"}) =>
        /\ pc = "done"
        /\ updates["A"].chart_bump = "minor"
        /\ updates["B"].chart_bump = "patch"
        /\ bump_type = "minor"
        /\ parent_info.chart_bump = "minor"
        /\ parent_info.suggested = V(0, 6, 0)

MissingCurrent(n) == ~Truthy(entity[n].current) /\ Truthy(entity[n].target)

\* C5 as claimed: on every plan-building path an entity with no current version
\* and a target version is classified major.
C5_MissingCurrentIsMajorEverywhere ==
    \A n \in DOMAIN updates : MissingCurrent(n) => updates[n].chart_bump = "major"

\* C5 as amended: in fetch_updates an entity with no current version and a
\* target version is classified major, whatever the target and the other
\* entities are; on the parent-chart path, where the version recorded in the
\* parent's dependencies is the current one, such an entity gets no bump.
C5_MissingCurrentByBuilder ==
    \A n \in DOMAIN updates :
        MissingCurrent(n) =>
            updates[n].chart_bump = IF builder = FETCH THEN "major" ELSE NoBump

\* C5 witness: fetch_updates ends with a plan in which a new entity, whose
\* target is not even a version, is major beside an entity with a patch bump.
C5_Witness ==
    /\ builder = FETCH
    /\ pc = "done"
    /\ \E n, m \in DOMAIN updates :
          /\ entity[n] = [current |-> NoneText, target |-> <<"1", ".", "2">>]
          /\ updates[n].chart_bump = "major"
          /\ updates[m].chart_bump = "patch"

\* What one entity's bump is, whatever the order of the submodules.
EntityBump(n) ==
    IF builder = FETCH THEN fetch_bump(entity[n].current, entity[n].target)
    ELSE IF repo_chart.isfile
         THEN subchart_bump(builder, entity[n].current, entity[n].target)
         ELSE ReturnKind(NoBump)

EntitiesRaise ==
    \E n \in Range(submodules) :
        ChartPathMissing(builder, n, chart_paths) \/ EntityBump(n).exc # ""

SetDominant == Dominant({EntityBump(n).kind : n \in Range(submodules)})

SetParent == parent_suggested(builder, get_chart_version(repo_chart), SetDominant)

\* C7: the plan does not depend on the order of the submodules: the entity
\* bumps, the dominant bump and the parent's target are those computed from
\* the set of entity records, and so is whether a plan is produced at all.
C7_OrderIndependent ==
    /\ pc = "done" =>
          /\ ~EntitiesRaise
          /\ DOMAIN updates = Range(submodules)
          /\ \A n \in DOMAIN updates : updates[n].chart_bump = EntityBump(n).kind
          /\ bump_type = SetDominant
          /\ SetParent.exc = ""
          /\ parent_info.suggested = SetParent.text
    /\ pc = "raised" => (EntitiesRaise \/ SetParent.exc # "")

\* C7 witness: B, listed first, has the major bump and A, listed last, a patch.
C7_Witness ==
    /\ pc = "done"
    /\ submodules = <<"B", "A">>
    /\ updates["B"].chart_bump = "major"
    /\ updates["A"].chart_bump = "patch"
    /\ bump_type = "major"
    /\ parent_info.suggested = V(0, 6, 0)

C9_ParentOneStep ==
    pc = "done" =>
        /\ parent_info.current = get_chart_version(repo_chart)
        /\ \/ parent_info.suggested = parent_info.current
           \/ /\ repo_chart.nums # <<>>
              /\ parent_info.suggested \in
                    {Dotted(repo_chart.nums[1], repo_chart.nums[2] + 1, 0),
                     Dotted(repo_chart.nums[1], repo_chart.nums[2],
                            repo_chart.nums[3] + 1)}

\* C9 witness: a major entity bump moves the parent from 1.9.9 to 1.10.0.
C9_Witness ==
    /\ pc = "done"
    /\ "major" \in PlanBumps
    /\ repo_chart.nums = <<1, 9, 9>>
    /\ parent_info.suggested = V(1, 10, 0)

ScenarioB ==
    /\ builder = FETCH
    /\ Range(submodules) = {"A", "B"}
    /\ entity["A"] = [current |-> V(1, 2, 0), target |-> V(1, 3, 0)]
    /\ entity["B"] = [current |-> V(2, 0, 0), target |-> V(2, 0, 1)]
    /\ repo_chart.isfile
    /\ repo_chart.version = V(0, 6, 0) \o <<"-">> \o RC

\* C13: scenario B (the entities of scenario A, parent 0.6.0-rc, identifier
\* rc): the candidate is 0.6.0, the sequencer takes IncrementTrain and the
\* parent's target is 0.6.0-rc.1.
C13_ScenarioB ==
    (ScenarioB /\ (pc = "raised" \/ (pc = "sequenced" /\ prerelease_identifier = RC))) =>
        /\ pc = "sequenced"
        /\ parent_info.suggested = V(0, 6, 0)
        /\ parent_target.exc = ""
        /\ parent_target.state = "IncrementTrain"
        /\ parent_target.text = V(0, 6, 0) \o <<"-">> \o RC1

\* The candidate is one minor or one patch step from the parent's current
\* version, hence greater than it in the ordering of section 3.
CandidateStepped ==
    /\ repo_chart.nums # <<>>
    /\ parent_info.suggested \in
          {Dotted(repo_chart.nums[1], repo_chart.nums[2] + 1, 0),
           Dotted(repo_chart.nums[1], repo_chart.nums[2], repo_chart.nums[3] + 1)}

\* C14: with an identifier and a candidate greater than the parent's current
\* version, the parent's target is the candidate's major.minor.patch with the
\* identifier as its prerelease and no counter (NewTrain); without an
\* identifier the parent's target is the candidate itself.
C14_NewTrain ==
    pc = "sequenced" =>
        /\ prerelease_identifier = NoneText =>
              (parent_target.exc = "" /\ parent_target.text = parent_info.suggested)
        /\ (prerelease_identifier # NoneText /\ CandidateStepped) =>
              /\ parent_target.exc = ""
              /\ parent_target.state = "NewTrain"
              /\ parent_target.text =
                    parent_info.suggested \o <<"-">> \o prerelease_identifier

\* C14 witness: a major entity bump moves the parent from 1.9.9 to 1.10.0, and
\* with the identifier beta the target is 1.10.0-beta.
C14_Witness ==
    /\ pc = "sequenced"
    /\ prerelease_identifier = BETA
    /\ "major" \in PlanBumps
    /\ repo_chart.nums = <<1, 9, 9>>
    /\ parent_target.text = V(1, 10, 0) \o <<"-">> \o BETA

\* An entity whose current or target version text is outside the grammar.
InvalidEntity(n) ==
    entity[n].current \in MalformedTexts \/ entity[n].target \in MalformedTexts

\* C15: plan building is fail-fast and all-or-nothing: when the current or the
\* target version text of any entity is not a valid version, the builder
\* raises the parser's ValueError and returns no plan.  (Every entity's chart
\* can be read: no chart path is missing.)
C15_InvalidEntityFailsPlan ==
    (/\ pc \in {"done", "raised"}
     /\ \E n \in Range(submodules) : InvalidEntity(n)
     /\ \A n \in Range(submodules) : ~ChartPathMissing(builder, n, chart_paths)) =>
        /\ pc = "raised"
        /\ raised = "ValueError"
        /\ parent_info = NoParentInfo

\* C16: a missing parent version is fatal: when the parent chart is absent or
\* has no version, the builder fails and returns no plan, whatever the entity
\* bumps are, also when there is none.
C16_MissingParentFailsPlan ==
    (pc \in {"done", "raised"} /\ get_chart_version(repo_chart) = NoneText) =>
        (pc = "raised" /\ parent_info = NoParentInfo)

(***************************************************************************)
(* The state file: json.dump and json.load, save_state and load_state      *)
(***************************************************************************)
\* A file whose text is not JSON.
Garbage == [j |-> "garbage", s |-> "", items |-> <<>>]

\* json.dump: None is null, a str a string, a list or a tuple an array, a dict
\* an object with its members in insertion order.
RECURSIVE json_dump(_)
json_dump(v) ==
    CASE v.t = "NoneType" -> [j |-> "null", s |-> "", items |-> <<>>]
      [] v.t = "str" -> [j |-> "string", s |-> v.s, items |-> <<>>]
      [] v.t \in {"list", "tuple"} ->
            [j |-> "array", s |-> "",
             items |-> [i \in 1..Len(v.items) |-> json_dump(v.items[i])]]
      [] v.t = "dict" ->
            [j |-> "object", s |-> "",
             items |-> [i \in 1..Len(v.items) |->
                           <<v.items[i][1], json_dump(v.items[i][2])>>]]

\* json.load: every array becomes a list; a text that is not JSON raises
\* JSONDecodeError, here a value of that type.
RECURSIVE json_load(_)
json_load(d) ==
    CASE d.j = "null" -> PyNone
      [] d.j = "string" -> PyStr(d.s)
      [] d.j = "array" ->
            PyList([i \in 1..Len(d.items) |-> json_load(d.items[i])])
      [] d.j = "object" ->
            PyDict([i \in 1..Len(d.items) |->
                       <<d.items[i][1], json_load(d.items[i][2])>>])
      [] d.j = "garbage" -> [t |-> "JSONDecodeError", s |-> "", items |-> <<>>]

\* dict.get(k), and d[k] for a key the dict has.
Get(d, k) ==
    IF \E i \in 1..Len(d.items) : d.items[i][1] = k
    THEN d.items[CHOOSE i \in 1..Len(d.items) : d.items[i][1] = k][2]
    ELSE PyNone

\* The file save_state(updates, parent_info, path) writes.
save_state(updates_, parent_info_) ==
    [isfile |-> TRUE,
     doc |-> json_dump(PyDict(<<<<"updates", updates_>>,
                                <<"parent_info", parent_info_>>>>))]

\* load_state giving an empty plan where it should give (None, None).
load_state_EmptyOnError(file) ==
    IF ~file.isfile \/ json_load(file.doc).t # "dict"
          \/ PyNone \in {Get(json_load(file.doc), "updates"),
                         Get(json_load(file.doc), "parent_info")}
    THEN <<PyDict(<<>>), PyDict(<<>>)>>
    ELSE <<Get(json_load(file.doc), "updates"), Get(json_load(file.doc), "parent_info")>>

\* load_state reading the key "update".
load_state_WrongKey(file) ==
    IF ~file.isfile \/ json_load(file.doc).t # "dict" THEN <<PyNone, PyNone>>
    ELSE <<Get(json_load(file.doc), "update"), Get(json_load(file.doc), "parent_info")>>

\* (None, None) without a file and on any exception: that of json.load, and
\* the AttributeError of state.get on a document that is not an object.
load_state(file) ==
    IF ~file.isfile \/ json_load(file.doc).t # "dict" THEN <<PyNone, PyNone>>
    ELSE <<Get(json_load(file.doc), "updates"), Get(json_load(file.doc), "parent_info")>>

(***************************************************************************)
(* Plans as main holds them, and the files it starts from                  *)
(***************************************************************************)
\* Entries of updates, with the keys in the order fetch_updates sets them.
\* A: the newest tag is suggested, its chart moves 0.1.0 -> 0.2.0.
InfoA ==
    PyDict(<<<<"path", PyStr("modules/A")>>, <<"chart_name", PyStr("chartA")>>,
             <<"current_tag", PyStr("t1")>>, <<"latest_tag", PyStr("t2")>>,
             <<"suggested_tag", PyStr("t2")>>,
             <<"recent_tags", PyList(<<PyStr("t2"), PyStr("t1")>>)>>,
             <<"current_tag_chart_version", PyStr("0.1.0")>>,
             <<"suggested_tag_chart_version", PyStr("0.2.0")>>>>)
\* B: a tag override suggests t1 although t2 is the newest; no chart found.
InfoB ==
    PyDict(<<<<"path", PyStr("modules/B")>>, <<"chart_name", PyNone>>,
             <<"current_tag", PyStr("t0")>>, <<"latest_tag", PyStr("t2")>>,
             <<"suggested_tag", PyStr("t1")>>,
             <<"recent_tags", PyList(<<PyStr("t2"), PyStr("t1")>>)>>,
             <<"current_tag_chart_version", PyNone>>,
             <<"suggested_tag_chart_version", PyNone>>>>)

\* fetch_updates' result: updates and parent_info.
PlanA ==
    <<PyDict(<<<<"A", InfoA>>>>),
      PyDict(<<<<"current", PyStr("1.0.0")>>, <<"suggested", PyStr("1.1.0")>>,
               <<"chart_bump", PyStr("minor")>>>>)>>
PlanBA ==
    <<PyDict(<<<<"B", InfoB>>, <<"A", InfoA>>>>),
      PyDict(<<<<"current", PyStr("1.1.0")>>, <<"suggested", PyStr("1.2.0")>>,
               <<"chart_bump", PyStr("minor")>>>>)>>
\* The third plan has no submodule and no bump.
Plans ==
    {PlanA, PlanBA,
     <<PyDict(<<>>),
       PyDict(<<<<"current", PyStr("1.0.0")>>, <<"suggested", PyStr("1.0.0")>>,
                <<"chart_bump", PyNone>>>>)>>}

\* fetch_updates as main sees it: a plan, or an exception.
FetchOutcomes ==
    {[exc |-> "", plan |-> P] : P \in Plans}
        \cup {[exc |-> "raised", plan |-> <<PyNone, PyNone>>]}

\* The state file before the first invocation: absent, not JSON, JSON that is
\* not an object, an object without parent_info, or a plan saved earlier.
StateFiles ==
    {NoFile,
     [isfile |-> TRUE, doc |-> Garbage],
     [isfile |-> TRUE, doc |-> json_dump(PyList(<<>>))],
     [isfile |-> TRUE, doc |-> json_dump(PyDict(<<<<"updates", PyDict(<<>>)>>>>))]}
        \cup {save_state(P[1], P[2]) : P \in Plans}

\* The parent chart: absent, or at 1.0.0 with a dependency on A's chart and
\* one on a chart that is no submodule's.
ChartFiles ==
    {NoChartFile,
     [isfile |-> TRUE, version |-> PyStr("1.0.0"),
      dependencies |-> <<[name |-> PyStr("chartA"), version |-> PyStr("0.1.0")],
                         [name |-> PyStr("other"), version |-> PyStr("9.9.9")]>>]}

\* The command lines: each command with the options main reads for it.
CommandLines ==
    {a \in [command : {"fetch", "update", "submodule"}, use_state_file : BOOLEAN,
            force_refetch : BOOLEAN, commit : BOOLEAN, accept : BOOLEAN,
            no_backup : BOOLEAN] :
        /\ a.command = "fetch" => ~(a.force_refetch \/ a.commit \/ a.no_backup)
        /\ a.command = "submodule" =>
              ~(a.use_state_file \/ a.force_refetch \/ a.no_backup)
        /\ a.command # "submodule" => ~a.accept}

(***************************************************************************)
(* prompt and apply_submodule_updates                                      *)
(***************************************************************************)
\* One character that str.isdigit accepts and int rejects (SUPERSCRIPT TWO).
U00B2 == "U+00B2"

\* str.lower()
py_lower(s) ==
    LET upper == <<"A", "B", "C", "D", "E", "F", "G", "H", "I", "J", "K", "L", "M",
                   "N", "O", "P", "Q", "R", "S", "T", "U", "V", "W", "X", "Y", "Z">>
        lower == <<"a", "b", "c", "d", "e", "f", "g", "h", "i", "j", "k", "l", "m",
                   "n", "o", "p", "q", "r", "s", "t", "u", "v", "w", "x", "y", "z">>
    IN  [i \in 1..Len(s) |->
            IF \E k \in 1..Len(upper) : upper[k] = s[i]
            THEN lower[CHOOSE k \in 1..Len(upper) : upper[k] = s[i]]
            ELSE s[i]]

\* str.isdigit(): not empty, every character a digit; the superscript digits
\* are digits, although they are not decimal.
py_isdigit(s) == s # <<>> /\ \A i \in 1..Len(s) : s[i] \in UnicodeDigits \cup {U00B2}

\* prompt(msg, default) for the line typed.
prompt(typed, default) == py_strip(IF typed = <<>> THEN default ELSE typed)

\* What is typed at a prompt.
RawAnswers ==
    {<<>>, <<"s">>, <<"S">>, <<"l">>, <<"n">>, <<"x">>, <<SP, "s">>, <<SP>>,
     <<"0">>, <<"1">>, <<"2">>, <<"3">>, <<"0", "1">>, <<U00B2>>}

CheckoutOf(tag) == [exc |-> "", checkout |-> TRUE, tag |-> tag]

\* The if / elif chain of apply_submodule_updates on the answer: the tag to
\* check out, no checkout in the else branch, or the exception of int().
Selection(ans, info) ==
    IF py_lower(ans) = <<"s">> THEN CheckoutOf(Get(info, "suggested_tag"))
    ELSE IF py_lower(ans) = <<"l">> THEN CheckoutOf(Get(info, "latest_tag"))
    ELSE IF py_isdigit(ans) /\ py_int(ans).exc # ""
    THEN [exc |-> py_int(ans).exc, checkout |-> FALSE, tag |-> PyNone]
    ELSE IF /\ py_isdigit(ans)
            /\ 1 <= py_int(ans).val
            /\ py_int(ans).val <= Len(Get(info, "recent_tags").items)
    THEN CheckoutOf(Get(info, "recent_tags").items[py_int(ans).val])
    ELSE [exc |-> "", checkout |-> FALSE, tag |-> PyNone]

\* run(cmd, cwd); git commands are taken to succeed.
Ran(op, arg, cwd) == [op |-> op, arg |-> arg, cwd |-> cwd]

(***************************************************************************)
(* apply_distribution_updates (cli.py) and commit_changes                  *)
(***************************************************************************)
\* The nested loop over updates.values() and the chart's dependencies; a or b
\* is b when a is None or empty.
RECURSIVE UpdatedDependencies(_, _)
UpdatedDependencies(deps, items) ==
    IF items = <<>> THEN deps
    ELSE UpdatedDependencies(
             [i \in 1..Len(deps) |->
                 IF deps[i].name = Get(Head(items)[2], "chart_name")
                 THEN [deps[i] EXCEPT !.version =
                          IF Get(Head(items)[2], "suggested_tag_chart_version")
                                \notin {PyNone, PyStr("")}
                          THEN Get(Head(items)[2], "suggested_tag_chart_version")
                          ELSE Get(Head(items)[2], "current_tag_chart_version")]
                 ELSE deps[i]],
             Tail(items))

commit_changes(message) == <<Ran("git add -A", "", ""), Ran("git commit", message, "")>>

(***************************************************************************)
(* main: the commands fetch, update and submodule update                   *)
(***************************************************************************)
InitUpdate ==
    /\ VersionIdle
    /\ PlanIdle
    /\ oin = <<>>
    /\ ocall = ""
    /\ oret = PyNone
    /\ args = NoArgs
    /\ state_file \in StateFiles
    /\ chart_file \in ChartFiles
    /\ upc = "idle"
    /\ uidx = 1
    /\ main_updates = PyNone
    /\ main_parent_info = PyNone
    /\ answers = <<>>
    /\ events = <<>>
    /\ saved = <<>>

\* A process starts: the command line is parsed.
Invoke ==
    /\ upc \in {"idle", "returned", "exit", "raised"}
    /\ args' \in CommandLines
    /\ upc' = args'.command
    /\ uidx' = 1
    /\ main_updates' = PyNone
    /\ main_parent_info' = PyNone
    /\ answers' = <<>>
    /\ events' = <<>>
    /\ UNCHANGED <<vvars, pvars, ovars, state_file, chart_file, saved>>

\* fetch_updates(...), then save_state of its result if asked, then the
\* commands that follow.
FetchAndSave(outcome, save, then, next) ==
    IF outcome.exc # ""
    THEN /\ upc' = "raised"
         /\ events' = Append(events, Ran("fetch_updates", "", ""))
         /\ UNCHANGED <<state_file, saved>>
    ELSE /\ upc' = next
         /\ IF save
            THEN /\ state_file' = save_state(outcome.plan[1], outcome.plan[2])
                 /\ saved' = outcome.plan
                 /\ events' = events \o <<Ran("fetch_updates", "", ""),
                                          Ran("save_state", "", "")>> \o then
            ELSE /\ events' = Append(events, Ran("fetch_updates", "", "")) \o then
                 /\ UNCHANGED <<state_file, saved>>

\* case "fetch"
MainFetch ==
    /\ upc = "fetch"
    /\ \E outcome \in FetchOutcomes :
          /\ FetchAndSave(outcome, args.use_state_file, <<>>, "returned")
          /\ main_updates' = outcome.plan[1]
          /\ main_parent_info' = outcome.plan[2]
    /\ UNCHANGED <<vvars, pvars, ovars, args, chart_file, uidx, answers>>

\* case "update": the plan is loaded from the state file, or fetched.
UpdateObtainPlan ==
    /\ upc = "update"
    /\ IF args.use_state_file /\ ~args.force_refetch /\ state_file.isfile
       THEN /\ main_updates' = load_state(state_file)[1]
            /\ main_parent_info' = load_state(state_file)[2]
            /\ events' = Append(events, Ran("load_state", "", ""))
            /\ upc' = IF PyNone \in {main_updates', main_parent_info'}
                      THEN "exit" ELSE "apply_submodules"
            /\ UNCHANGED <<state_file, saved>>
       ELSE \E outcome \in FetchOutcomes :
               /\ FetchAndSave(outcome, args.use_state_file, <<>>,
                               "apply_submodules")
               /\ main_updates' = outcome.plan[1]
               /\ main_parent_info' = outcome.plan[2]
    /\ UNCHANGED <<vvars, pvars, ovars, args, chart_file, uidx, answers>>

\* case "submodule", "update": the fetch.
SubmoduleFetch ==
    /\ upc = "submodule"
    /\ \E outcome \in FetchOutcomes :
          /\ FetchAndSave(outcome, FALSE, <<>>, "apply_submodules")
          /\ main_updates' = outcome.plan[1]
          /\ main_parent_info' = outcome.plan[2]
    /\ UNCHANGED <<vvars, pvars, ovars, args, chart_file, uidx, answers>>

\* The rest of an iteration: the checkout, if any, in the submodule's path,
\* then git add of the path.
IterationDone(selection, path, quiet) ==
    IF selection.exc # ""
    THEN /\ upc' = "raised"
         /\ UNCHANGED <<uidx, events>>
    ELSE /\ events' = events
               \o (IF selection.checkout
                   THEN <<Ran(IF quiet THEN "git checkout -q" ELSE "git checkout",
                              selection.tag.s, path.s)>>
                   ELSE <<>>)
               \o <<Ran("git add", path.s, "")>>
         /\ uidx' = uidx + 1
         /\ UNCHANGED upc

\* One iteration of apply_submodule_updates' loop.  update calls
\* apply_submodule_updates(updates, True, True), submodule update calls
\* apply_submodule_updates(updates, yes=args.accept).
ApplySubmodule ==
    /\ upc = "apply_submodules"
    /\ uidx <= Len(main_updates.items)
    /\ IF args.command = "update" \/ args.accept
       THEN /\ IterationDone(Selection(<<"s">>, main_updates.items[uidx][2]),
                             Get(main_updates.items[uidx][2], "path"),
                             args.command = "update")
            /\ UNCHANGED answers
       ELSE \E typed \in RawAnswers :
               /\ answers' = Append(answers, typed)
               /\ IterationDone(Selection(prompt(typed, <<"s">>),
                                          main_updates.items[uidx][2]),
                                Get(main_updates.items[uidx][2], "path"),
                                args.command = "update")
    /\ UNCHANGED <<vvars, pvars, ovars, args, state_file, chart_file, main_updates,
                   main_parent_info, saved>>

\* apply_submodule_updates returns; submodule update then commits if asked.
ApplySubmodulesReturn ==
    /\ upc = "apply_submodules"
    /\ uidx > Len(main_updates.items)
    /\ IF args.command = "update"
       THEN /\ upc' = "apply_distribution"
            /\ UNCHANGED events
       ELSE /\ upc' = "returned"
            /\ events' = events \o (IF args.commit
                                    THEN commit_changes("Update submodules")
                                    ELSE <<>>)
    /\ UNCHANGED <<vvars, pvars, ovars, args, state_file, chart_file, uidx,
                   main_updates, main_parent_info, answers, saved>>

\* apply_distribution_updates(updates, parent_info, chart_path_overrides,
\* True, args.no_backup)
UpdateApplyDistribution ==
    /\ upc = "apply_distribution"
    /\ IF ~chart_file.isfile
       THEN /\ upc' = "exit"
            /\ UNCHANGED <<chart_file, events>>
       ELSE /\ chart_file' =
                  [isfile |-> TRUE,
                   version |-> Get(main_parent_info, "suggested"),
                   dependencies |->
                       UpdatedDependencies(chart_file.dependencies, main_updates.items)]
            /\ events' = events
                  \o (IF args.no_backup THEN <<>> ELSE <<Ran("cp", "Chart.yaml.bak", "")>>)
                  \o <<Ran("dump_yaml", "Chart.yaml", "")>>
            /\ upc' = "refetch"
    /\ UNCHANGED <<vvars, pvars, ovars, args, state_file, uidx, main_updates,
                   main_parent_info, answers, saved>>

\* The rest of case "update": the second fetch_updates, the save of the new
\* plan, the commit.  updates and parent_info keep the plan applied.
UpdateRefetch ==
    /\ upc = "refetch"
    /\ \E outcome \in FetchOutcomes :
          FetchAndSave(outcome, args.use_state_file,
                       IF args.commit
                       THEN commit_changes("Update submodules and chart versions")
                       ELSE <<>>,
                       "returned")
    /\ UNCHANGED <<vvars, pvars, ovars, args, chart_file, uidx, main_updates,
                   main_parent_info, answers>>

NextUpdate ==
    \/ Invoke
    \/ MainFetch
    \/ UpdateObtainPlan
    \/ SubmoduleFetch
    \/ ApplySubmodule
    \/ ApplySubmodulesReturn
    \/ UpdateApplyDistribution
    \/ UpdateRefetch

SpecUpdate == InitUpdate /\ [][NextUpdate]_vars

(***************************************************************************)
(* Claims on persistence and on the answers to the submodule prompt        *)
(***************************************************************************)
\* The commands apply_submodule_updates(updates, True, True) runs for the
\* first k entries of a plan's updates: the suggested tag is checked out in
\* the entry's path, then the path is added.
RECURSIVE SuggestedCommands(_, _)
SuggestedCommands(items, k) ==
    IF k = 0 THEN <<>>
    ELSE SuggestedCommands(items, k - 1)
            \o <<Ran("git checkout -q", Get(items[k][2], "suggested_tag").s,
                     Get(items[k][2], "path").s),
                 Ran("git add", Get(items[k][2], "path").s, "")>>

\* An update invocation that is to resume from the state file: the file is in
\* use, exists, is not to be refetched, and this invocation has not written it.
Resuming ==
    /\ args.command = "update"
    /\ args.use_state_file
    /\ ~args.force_refetch
    /\ state_file.isfile
    /\ \A i \in 1..Len(events) : events[i].op # "save_state"

\* C17: load_state after save_state(updates, parent_info) returns exactly the
\* saved pair; and an update invocation that resumes from a state file holding
\* a plan applies exactly that plan: its checkouts, in order, are the plan's
\* suggested tags, the manifest gets the plan's suggested parent version, and
\* no fetch_updates happens before the manifest is written.
C17_PersistenceResume ==
    /\ saved # <<>> => load_state(state_file) = saved
    /\ \A P \in Plans :
          (Resuming /\ state_file = save_state(P[1], P[2]) /\ upc # "update") =>
              /\ <<main_updates, main_parent_info>> = P
              /\ SubSeq(events, 1, 2 * uidx - 1) =
                    <<Ran("load_state", "", "")>> \o SuggestedCommands(P[1].items, uidx - 1)
              /\ upc = "refetch" =>
                    /\ uidx = Len(P[1].items) + 1
                    /\ chart_file.version = Get(P[2], "suggested")
              /\ \A i \in 1..Len(events) :
                    events[i].op = "fetch_updates" =>
                        \E j \in 1..(i - 1) : events[j].op = "dump_yaml"

\* C17 witness: a fetch invocation saved the plan <B, A>; a later update
\* invocation loaded it, checked out B's overridden tag t1 and A's t2, and
\* wrote the manifest, with nothing fetched.
C17_Witness ==
    /\ saved = PlanBA
    /\ Resuming
    /\ upc = "refetch"
    /\ main_updates = PlanBA[1]
    /\ events[2] = Ran("git checkout -q", "t1", "modules/B")
    /\ events[4] = Ran("git checkout -q", "t2", "modules/A")
    /\ chart_file.version = PyStr("1.2.0")

\* resolve_choice of section "interactive selection", on the line typed: the
\* answer is taken without surrounding whitespace and without case.
IsDecimal(a) == a # <<>> /\ \A i \in 1..Len(a) : a[i] \in AsciiDigits
resolve_choice(typed, candidates) ==
    LET a == py_lower(py_strip(typed))
    IN  IF typed = <<>> \/ a = <<"s">> THEN "Suggested"
        ELSE IF a = <<"l">> THEN "Latest"
        ELSE IF a = <<"n">> THEN "Skip"
        ELSE IF IsDecimal(a) /\ 1 <= DigitsValue(a) /\ DigitsValue(a) <= Len(candidates)
        THEN "ManualIndex"
        ELSE "Invalid"

\* The tag a selection checks out; Skip and Invalid check out nothing.
ResolvedCommands(selection, typed, info) ==
    (CASE selection = "Suggested" ->
            <<Ran("git checkout", Get(info, "suggested_tag").s, Get(info, "path").s)>>
       [] selection = "Latest" ->
            <<Ran("git checkout", Get(info, "latest_tag").s, Get(info, "path").s)>>
       [] selection = "ManualIndex" ->
            <<Ran("git checkout",
                  Get(info, "recent_tags").items[DigitsValue(py_strip(typed))].s,
                  Get(info, "path").s)>>
       [] OTHER -> <<>>) \o <<Ran("git add", Get(info, "path").s, "")>>

\* The commands for the first k entries, given what was typed for each
\* (nothing is typed when every suggestion is accepted beforehand).
RECURSIVE ExpectedCommands(_, _, _)
ExpectedCommands(items, typed, k) ==
    IF k = 0 THEN <<>>
    ELSE ExpectedCommands(items, typed, k - 1)
            \o ResolvedCommands(
                   IF args.accept THEN "Suggested"
                   ELSE resolve_choice(typed[k], Get(items[k][2], "recent_tags").items),
                   IF args.accept THEN <<>> ELSE typed[k],
                   items[k][2])

\* C20: in submodule update every answer resolves to one selection, the
\* selection decides the checkout (none for Skip and Invalid), and the
\* submodules are resolved one by one in plan order: no answer ends the loop,
\* and the commands run so far are those of the entries resolved so far.
C20_EveryAnswerResolves ==
    (args.command = "submodule" /\ main_updates.t = "dict") =>
        /\ upc # "raised"
        /\ ~args.accept => Len(answers) = uidx - 1
        /\ SubSeq(events, 2, Len(events) - (IF upc = "returned" /\ args.commit THEN 2 ELSE 0))
              = ExpectedCommands(main_updates.items, answers, uidx - 1)

(***************************************************************************)
(* The override layers: tag overrides and chart path overrides             *)
(***************************************************************************)
\* parse_json_file and parse_json_arg: the value of the JSON text, {} when
\* there is no file or the text is not JSON.  An argument is always present.
parse_json(file) ==
    IF ~file.isfile \/ file.doc = Garbage THEN PyDict(<<>>) ELSE json_load(file.doc)

\* a | b on dicts: a's keys in a's order, with b's value where b has the key,
\* then b's other keys; TypeError when an operand is no dict.
PyMerge(a, b) ==
    IF a.t # "dict" \/ b.t # "dict" THEN [t |-> "TypeError", s |-> "", items |-> <<>>]
    ELSE PyDict([i \in 1..Len(a.items) |->
                    <<a.items[i][1],
                      IF \E k \in 1..Len(b.items) : b.items[k][1] = a.items[i][1]
                      THEN Get(b, a.items[i][1]) ELSE a.items[i][2]>>]
                \o SelectSeq(b.items,
                             LAMBDA kv : \A i \in 1..Len(a.items) : a.items[i][1] # kv[1]))

\* d.get(k, default)
GetOr(d, k, default) ==
    IF \E i \in 1..Len(d.items) : d.items[i][1] = k THEN Get(d, k) ELSE default

\* The command, the two layers of tag overrides (values tF in the file, tA on
\* the command line), the chart path overrides file (repoChart rF,
\* submoduleCharts with values pF, each present or not), --submodule-chart-paths
\* (values pA) and --repo-chart-path ("" by default).
OverrideInputs ==
    LET Layer(v) == {PyDict(<<>>), PyDict(<<<<"A", PyStr(v)>>>>),
                     PyDict(<<<<"B", PyStr(v)>>>>),
                     PyDict(<<<<"A", PyStr(v)>>, <<"B", PyStr(v)>>>>)}
        Files(values) == {NoFile, [isfile |-> TRUE, doc |-> Garbage]}
                            \cup {[isfile |-> TRUE, doc |-> json_dump(v)] : v \in values}
        Args(values) == {[isfile |-> TRUE, doc |-> Garbage]}
                            \cup {[isfile |-> TRUE, doc |-> json_dump(v)] : v \in values}
        ChartFileValues ==
            {PyDict((IF r THEN <<<<"repoChart", PyStr("rF")>>>> ELSE <<>>)
                    \o (IF c = PyNone THEN <<>> ELSE <<<<"submoduleCharts", c>>>>)) :
                r \in BOOLEAN, c \in Layer("pF") \cup {PyNone}}
    IN  [command : {PyStr(c) : c \in {"fetch", "update", "distribution",
                                      "submodule", "format"}},
         tags_file : Files(Layer("tF")),
         tags_arg : Args(Layer("tA")),
         charts_file : Files(ChartFileValues),
         charts_arg : Args(Layer("pA")),
         repo_arg : {"", "rA"}]

InitOverrides ==
    /\ VersionIdle
    /\ PlanIdle
    /\ oin \in OverrideInputs
    /\ ocall = ""
    /\ oret = PyNone
    /\ args = NoArgs
    /\ state_file = NoFile
    /\ chart_file = NoChartFile
    /\ upc = "idle"
    /\ uidx = 1
    /\ main_updates = PyNone
    /\ main_parent_info = PyNone
    /\ answers = <<>>
    /\ events = <<>>
    /\ saved = <<>>

\* parse_tag_overrides(file, arg)
ParseTagOverrides ==
    /\ ocall = ""
    /\ ocall' = "parse_tag_overrides"
    /\ oret' = PyMerge(parse_json(oin.tags_file), parse_json(oin.tags_arg))
    /\ UNCHANGED <<vvars, pvars, oin, uvars>>

\* distribution.py's parse_chart_path_overrides: x or y is y when x is empty.
DistParseChartPathOverrides ==
    /\ ocall = ""
    /\ ocall' = "distribution.parse_chart_path_overrides"
    /\ oret' =
          PyDict(<<
              <<"repo_chart",
                IF oin.repo_arg # "" THEN PyStr(oin.repo_arg)
                ELSE IF GetOr(parse_json(oin.charts_file), "repoChart", PyNone)
                           \notin {PyNone, PyStr("")}
                THEN Get(parse_json(oin.charts_file), "repoChart")
                ELSE PyStr("deploy/chart/Chart.yaml")>>,
              <<"submodule_charts",
                IF parse_json(oin.charts_arg).items # <<>>
                THEN parse_json(oin.charts_arg)
                ELSE GetOr(parse_json(oin.charts_file), "submoduleCharts",
                           PyDict(<<>>))>> >>)
    /\ UNCHANGED <<vvars, pvars, oin, uvars>>

\* main, lines 712-723: chart_path_overrides after the match statement.  The
\* pattern "fetch", "update", "distribution" is a sequence pattern: it matches
\* a list or tuple of these three values, and no str.  In its case cli.py's
\* parse_chart_path_overrides is called: None | {...} is a TypeError when the
\* file has no submoduleCharts.
MainChartPathOverrides ==
    /\ ocall = ""
    /\ ocall' = "main"
    /\ oret' =
          IF /\ oin.command.t \in {"list", "tuple"}
             /\ oin.command.items = <<PyStr("fetch"), PyStr("update"),
                                      PyStr("distribution")>>
          THEN PyMerge(PyDict(<<>>),
                   IF PyMerge(Get(parse_json(oin.charts_file), "submoduleCharts"),
                              parse_json(oin.charts_arg)).t = "TypeError"
                   THEN PyMerge(Get(parse_json(oin.charts_file), "submoduleCharts"),
                                parse_json(oin.charts_arg))
                   ELSE PyDict(<<
                            <<"repo_chart",
                              IF oin.repo_arg # "" THEN PyStr(oin.repo_arg)
                              ELSE Get(parse_json(oin.charts_file), "repoChart")>>,
                            <<"submodule_charts",
                              PyMerge(Get(parse_json(oin.charts_file),
                                          "submoduleCharts"),
                                      parse_json(oin.charts_arg))>> >>))
          ELSE PyDict(<<>>)
    /\ UNCHANGED <<vvars, pvars, oin, uvars>>

NextOverrides ==
    \/ ParseTagOverrides
    \/ DistParseChartPathOverrides
    \/ MainChartPathOverrides

SpecOverrides == InitOverrides /\ [][NextOverrides]_vars

(***************************************************************************)
(* Claims on the override layers                                           *)
(***************************************************************************)
\* The value a layer's JSON text gives a name; PyNone when the layer is
\* absent, is not JSON, or does not define the name.
LayerValue(file, name) ==
    IF file.isfile /\ file.doc.j = "object"
          /\ \E i \in 1..Len(file.doc.items) : file.doc.items[i][1] = name
    THEN PyStr(file.doc.items[CHOOSE i \in 1..Len(file.doc.items) :
                                 file.doc.items[i][1] = name][2].s)
    ELSE PyNone

\* The submoduleCharts member of the chart path overrides file, as a layer.
FileCharts ==
    IF oin.charts_file.isfile /\ oin.charts_file.doc.j = "object"
          /\ \E i \in 1..Len(oin.charts_file.doc.items) :
                oin.charts_file.doc.items[i][1] = "submoduleCharts"
    THEN [isfile |-> TRUE,
          doc |-> oin.charts_file.doc.items[
                      CHOOSE i \in 1..Len(oin.charts_file.doc.items) :
                          oin.charts_file.doc.items[i][1] = "submoduleCharts"][2]]
    ELSE NoFile

\* First match wins: the command line's value, else the file's, else the default.
FirstMatch(arg, file, name, default) ==
    IF LayerValue(arg, name) # PyNone THEN LayerValue(arg, name)
    ELSE IF LayerValue(file, name) # PyNone THEN LayerValue(file, name)
    ELSE default

\* C18: for the commands fetch, update and distribution, main's
\* chart_path_overrides holds the parsed overrides: a supplied --repo-chart-path
\* is the repo chart that fetch_updates and apply_distribution_updates use, and
\* a chart path supplied for a submodule in --submodule-chart-paths is the one
\* fetch_updates uses for it.
C18_ChartPathOverridesUsed ==
    (/\ ocall = "main"
     /\ oin.command \in {PyStr("fetch"), PyStr("update"), PyStr("distribution")}) =>
        /\ oin.repo_arg # "" =>
              GetOr(oret, "repo_chart", PyStr("deploy/chart/Chart.yaml"))
                  = PyStr(oin.repo_arg)
        /\ \A name \in {"A", "B"} :
              LayerValue(oin.charts_arg, name) # PyNone =>
                  GetOr(GetOr(oret, "submodule_charts", PyDict(<<>>)), name,
                        PyStr("deploy/chart/Chart.yaml"))
                      = LayerValue(oin.charts_arg, name)

\* C19: for every submodule name the suggested tag is the command line's tag
\* override if it defines the name, else the file's if it defines the name,
\* else the newest tag; and the chart path used for the name is the command
\* line's if it defines the name, else the file's if it defines the name, else
\* the default, also when the command line defines other names.
C19_FirstMatchWinsPerName ==
    \A name \in {"A", "B"} :
        /\ ocall = "parse_tag_overrides" =>
              GetOr(oret, name, PyStr("t2"))
                  = FirstMatch(oin.tags_arg, oin.tags_file, name, PyStr("t2"))
        /\ ocall = "distribution.parse_chart_path_overrides" =>
              GetOr(Get(oret, "submodule_charts"), name,
                    PyStr("deploy/chart/Chart.yaml"))
                  = FirstMatch(oin.charts_arg, FileCharts, name,
                               PyStr("deploy/chart/Chart.yaml"))

(***************************************************************************)
(* Claims on the update command and on the manifest write                  *)
(***************************************************************************)
\* The positions in the log of the events with one of the given commands.
Positions(ops) == {i \in 1..Len(events) : events[i].op \in ops}

\* The order of the steps of one update invocation, on its log: the plan is
\* obtained first; every checkout comes before the manifest is touched, and
\* when it is written every entry of the plan has been resolved; a second
\* fetch comes after the manifest write; a commit comes after the manifest
\* write and only with --commit.
UpdateStepsInOrder ==
    args.command = "update" =>
        /\ events # <<>> => events[1].op \in {"load_state", "fetch_updates"}
        /\ \A i \in Positions({"git checkout -q", "git add"}) :
              /\ i > 1
              /\ \A j \in Positions({"cp", "dump_yaml"}) : i < j
        /\ Positions({"dump_yaml"}) # {} =>
              /\ uidx = Len(main_updates.items) + 1
              /\ Cardinality(Positions({"git checkout -q"})) = Len(main_updates.items)
        /\ \A i \in Positions({"fetch_updates"}) :
              i > 1 => \E j \in Positions({"dump_yaml"}) : j < i
        /\ \A i \in Positions({"git add -A", "git commit"}) :
              /\ args.commit
              /\ \E j \in Positions({"dump_yaml"}) : j < i

\* The state file does not hold a plan: it is no JSON object, or updates or
\* parent_info is missing or null.
Unloadable(file) ==
    ~(/\ file.doc.j = "object"
      /\ \A key \in {"updates", "parent_info"} :
            \E i \in 1..Len(file.doc.items) :
               file.doc.items[i][1] = key /\ file.doc.items[i][2].j # "null")

\* The step of an update invocation that exits with an error at once: only
\* load_state has run, no file is written, and nothing more happens.
ExitsBeforeAnyEffect ==
    /\ upc' = "exit"
    /\ events' = <<Ran("load_state", "", "")>>
    /\ UNCHANGED <<state_file, chart_file, saved>>

\* C21 as stated: the steps of update occur in the fixed order, and when the
\* state file is in use, exists and holds no plan, the command exits before
\* any checkout, manifest write, state write or commit.
C21_UpdateOrderAndExit ==
    /\ []UpdateStepsInOrder
    /\ [][(/\ upc = "update"
           /\ args.use_state_file
           /\ state_file.isfile
           /\ Unloadable(state_file)) => ExitsBeforeAnyEffect]_vars

\* C21 amended: as above, where the state file is in use, exists, holds no
\* plan and --force-refetch is not set; with --force-refetch the file is not
\* read, a plan is fetched and the file is overwritten.
C21_UpdateOrderAndExitUnlessRefetch ==
    /\ []UpdateStepsInOrder
    /\ [][(/\ upc = "update"
           /\ args.use_state_file
           /\ ~args.force_refetch
           /\ state_file.isfile
           /\ Unloadable(state_file)) => ExitsBeforeAnyEffect]_vars

\* C21 witness: an update invocation found a state file that holds no plan
\* and exited with only load_state run.
C21_Witness ==
    /\ args.command = "update"
    /\ args.use_state_file
    /\ ~args.force_refetch
    /\ state_file.isfile
    /\ Unloadable(state_file)
    /\ upc = "exit"
    /\ events = <<Ran("load_state", "", "")>>

(***************************************************************************)
(* apply_distribution_updates, one call                                    *)
(***************************************************************************)
\* The repo chart (absent, or at 1.0.0 with a dependency on chartA and one on
\* a chart that is no submodule's, with or without annotations), the plan's
\* updates (only the keys the function reads) and parent_info, the
\* pre-release identifier and no_backup.  Versions of the parent and the
\* identifier are texts, so that "identifier in version" is computed.
DistributionInputs ==
    LET Entry(chart_name, suggested, current) ==
            PyDict(<<<<"chart_name", chart_name>>,
                     <<"current_tag_chart_version", current>>,
                     <<"suggested_tag_chart_version", suggested>>>>)
        Annotations == [present : BOOLEAN, base_version : {NoneText, V(0, 9, 0)},
                        note : BOOLEAN]
    IN  [chart :
            {[isfile |-> FALSE, version |-> NoneText, dependencies |-> <<>>,
              annotations |-> [present |-> FALSE, base_version |-> NoneText,
                               note |-> FALSE]]}
            \cup {[isfile |-> TRUE, version |-> V(1, 0, 0),
                   dependencies |-> <<[name |-> PyStr("chartA"), version |-> PyStr("0.1.0")],
                                      [name |-> PyStr("other"), version |-> PyStr("9.9.9")]>>,
                   annotations |-> a] :
                     a \in {a \in Annotations :
                               ~a.present => (a.base_version = NoneText /\ ~a.note)}},
         updates :
            {PyDict(<<>>),
             PyDict(<<<<"A", Entry(PyStr("chartA"), PyStr("0.2.0"), PyStr("0.1.0"))>>>>),
             PyDict(<<<<"A", Entry(PyStr("chartA"), PyNone, PyStr("0.1.1"))>>>>),
             PyDict(<<<<"A", Entry(PyStr("chartA"), PyStr(""), PyStr("0.1.1"))>>>>),
             PyDict(<<<<"A", Entry(PyStr("chartA"), PyNone, PyNone)>>>>),
             PyDict(<<<<"B", Entry(PyNone, PyNone, PyNone)>>,
                      <<"A", Entry(PyStr("chartA"), PyStr("0.2.0"), PyStr("0.1.0"))>>>>),
             PyDict(<<<<"A", Entry(PyStr("chartA"), PyStr("0.2.0"), PyStr("0.1.0"))>>,
                      <<"B", Entry(PyStr("chartA"), PyStr("0.3.0"), PyNone)>>>>)},
         parent_info :
            {[current |-> V(1, 0, 0), suggested |-> V(1, 0, 0)],
             [current |-> V(1, 0, 0), suggested |-> V(1, 1, 0)],
             [current |-> V(1, 0, 0), suggested |-> V(1, 1, 0) \o <<"-">> \o RC],
             [current |-> V(1, 1, 0) \o <<"-">> \o RC,
              suggested |-> V(1, 1, 0) \o <<"-">> \o RC1],
             [current |-> NoneText, suggested |-> NoneText]},
         prerelease_identifier : {NoneText, <<>>, RC, BETA},
         no_backup : BOOLEAN]

InitDistribution ==
    /\ VersionIdle
    /\ PlanIdle
    /\ oin \in DistributionInputs
    /\ ocall = ""
    /\ oret = PyNone
    /\ args = NoArgs
    /\ state_file = NoFile
    /\ chart_file = NoChartFile
    /\ upc = "idle"
    /\ uidx = 1
    /\ main_updates = PyNone
    /\ main_parent_info = PyNone
    /\ answers = <<>>
    /\ events = <<>>
    /\ saved = <<>>

\* apply_distribution_updates on the input in with the given identifier: what
\* it raised, whether the backup was made, whether dump_yaml ran, and the
\* chart data as the file holds it afterwards.  x in None is a TypeError,
\* raised after the backup and before dump_yaml.
apply_distribution_updates(in, identifier) ==
    LET occurs(text) == \E i \in 1..(Len(text) - Len(identifier) + 1) :
                            SubSeq(text, i, i + Len(identifier) - 1) = identifier
        data == [in.chart EXCEPT
                    !.dependencies = UpdatedDependencies(@, in.updates.items),
                    !.version = in.parent_info.suggested]
    IN  IF ~in.chart.isfile
        THEN [exc |-> "SystemExit", backup |-> FALSE, dumped |-> FALSE,
              chart_data |-> in.chart]
        ELSE IF ~Truthy(identifier)
        THEN [exc |-> "", backup |-> ~in.no_backup, dumped |-> TRUE, chart_data |-> data]
        ELSE IF \/ in.parent_info.suggested = NoneText
                \/ occurs(in.parent_info.suggested) /\ in.parent_info.current = NoneText
        THEN [exc |-> "TypeError", backup |-> ~in.no_backup, dumped |-> FALSE,
              chart_data |-> in.chart]
        ELSE IF occurs(in.parent_info.suggested) /\ ~occurs(in.parent_info.current)
        THEN [exc |-> "", backup |-> ~in.no_backup, dumped |-> TRUE,
              chart_data |-> [data EXCEPT
                                 !.annotations.present = TRUE,
                                 !.annotations.base_version = in.parent_info.current]]
        ELSE [exc |-> "", backup |-> ~in.no_backup, dumped |-> TRUE, chart_data |-> data]

\* cli.py's apply_distribution_updates: it has no prerelease_identifier and
\* no annotation step, as distribution.py's without an identifier.
CliApplyDistributionUpdates ==
    /\ ocall = ""
    /\ ocall' = "cli.apply_distribution_updates"
    /\ oret' = apply_distribution_updates(oin, NoneText)
    /\ UNCHANGED <<vvars, pvars, oin, uvars>>

\* distribution.py's apply_distribution_updates
DistApplyDistributionUpdates ==
    /\ ocall = ""
    /\ ocall' = "distribution.apply_distribution_updates"
    /\ oret' = apply_distribution_updates(oin, oin.prerelease_identifier)
    /\ UNCHANGED <<vvars, pvars, oin, uvars>>

NextDistribution ==
    \/ CliApplyDistributionUpdates
    \/ DistApplyDistributionUpdates

SpecDistribution == InitDistribution /\ [][NextDistribution]_vars

\* The entries of the plan whose chart_name is the given dependency name.
Naming(name) ==
    {i \in 1..Len(oin.updates.items) : Get(oin.updates.items[i][2], "chart_name") = name}

\* The entity's suggested chart version, its current one when it has none.
PlannedVersion(i) ==
    IF Get(oin.updates.items[i][2], "suggested_tag_chart_version") \in {PyNone, PyStr("")}
    THEN Get(oin.updates.items[i][2], "current_tag_chart_version")
    ELSE Get(oin.updates.items[i][2], "suggested_tag_chart_version")

\* The identifier is supplied, occurs in the parent's suggested version and
\* does not occur in its current version.
StartsPrerelease ==
    LET id == oin.prerelease_identifier
        Occurs(text) == /\ text # NoneText
                        /\ \E i \in 1..Len(text), j \in 1..Len(text) :
                              SubSeq(text, i, j) = id
    IN  /\ ocall = "distribution.apply_distribution_updates"
        /\ id \notin {NoneText, <<>>}
        /\ Occurs(oin.parent_info.suggested)
        /\ ~Occurs(oin.parent_info.current)

\* C22: apply_distribution_updates changes only what the plan names.  Without
\* a repo chart file nothing is written.  With one, the manifest is written:
\* a dependency named by an entity's chart_name has that entity's suggested
\* chart version, or its current one when it has no suggested one; every other
\* dependency is unchanged; the manifest's version is parent_info's suggested;
\* the relsync/base-version annotation is set to the parent's current version
\* when an identifier is supplied that occurs in the suggested and not in the
\* current version, and the annotations are unchanged otherwise.
C22_DistributionFrame ==
    ocall # "" =>
        IF ~oin.chart.isfile
        THEN ~oret.dumped /\ ~oret.backup /\ oret.chart_data = oin.chart
        ELSE /\ oret.dumped
             /\ Len(oret.chart_data.dependencies) = Len(oin.chart.dependencies)
             /\ \A d \in 1..Len(oin.chart.dependencies) :
                   /\ oret.chart_data.dependencies[d].name = oin.chart.dependencies[d].name
                   /\ IF Naming(oin.chart.dependencies[d].name) = {}
                      THEN oret.chart_data.dependencies[d] = oin.chart.dependencies[d]
                      ELSE \E i \in Naming(oin.chart.dependencies[d].name) :
                              oret.chart_data.dependencies[d].version = PlannedVersion(i)
             /\ oret.chart_data.version = oin.parent_info.suggested
             /\ oret.chart_data.annotations =
                   IF StartsPrerelease
                   THEN [oin.chart.annotations EXCEPT
                            !.present = TRUE,
                            !.base_version = oin.parent_info.current]
                   ELSE oin.chart.annotations

(***************************************************************************)
(* The parent's version when no entity has a bump (under Spec)             *)
(***************************************************************************)
\* The entity has no target version, or its target is a valid version equal
\* to or lower than its valid current version in (major, minor, patch).
UnchangedOrLower(n) ==
    \/ ~Truthy(entity[n].target)
    \/ /\ parse_version(entity[n].current).exc = ""
       /\ parse_version(entity[n].target).exc = ""
       /\ \/ \A i \in 1..3 : parse_version(entity[n].target).tuple[i]
                                = parse_version(entity[n].current).tuple[i]
          \/ Lower(parse_version(entity[n].target).tuple,
                   parse_version(entity[n].current).tuple)

\* C23: when no entity has a detected bump (there is no entity, or every
\* entity is unchanged, lower or without a target version), the plan's parent
\* target is the parent's current version, on the fetch_updates path and on
\* the parent-chart path.
C23_NoBumpKeepsParent ==
    (pc = "done" /\ \A n \in Range(submodules) : UnchangedOrLower(n)) =>
        parent_info.suggested = parent_info.current

=============================================================================
